---- MODULE Spec2Model ----
(***************************************************************************)
(* Model of the Box build pipeline (Gravelight-Studio/box, Go module):     *)
(* the build orchestrator Generator.Generate and its four emitters, the    *)
(* container grouping, and the two programs that drive the annotation      *)
(* parser (the build CLI and the live router).                             *)
(*                                                                         *)
(* Names (function, package, service names) are sequences of one-letter    *)
(* strings so that toKebabCase can be computed character by character.     *)
(* The output directory is a pair (dirs, files): dirs is the set of        *)
(* directory paths below the output root (the root itself is <<>>), files  *)
(* maps a file path to the content written to it.  A path is a sequence    *)
(* of path segments.  A file's content is the template that rendered it    *)
(* and the data the template was executed with.                            *)
(***************************************************************************)
EXTENDS Integers, Sequences, FiniteSets, TLC

VARIABLES
    handlers,       \* Generator.handlers: the handler list the caller gave
    handlers0,      \* the list as the caller built it, before NewGenerator
    cleanBuildDir,  \* Generator.cleanBuildDir
    dirs,           \* directories that exist at or below the output root
    files,          \* files below the output root: path -> content
    pc,             \* position inside Generator.Generate
    err,            \* what Generate returned: NoErr or a wrapped error
    status,         \* per emitter: pending / skipped / ok / failed
    written,        \* what this Generate call created: [path, by]
    pre,            \* the output tree when this Generate call started
    run,            \* number of Generate calls started on this Generator
    out1,           \* output tree after the first successful Generate
    prog,           \* the program driving the pipeline: api / build / router
    ppc,            \* position inside that program (buildGo or router.New)
    source,         \* the declarations in the handlers directory
    calls,          \* pipeline components invoked so far, in order
    surfaced,       \* diagnostics the program logged or returned
    groups,         \* serviceGroups of the last ContainerGenerator.Generate
    now,            \* time.Now(), in ticks
    buckets,        \* InMemoryRateLimiter.buckets: key -> bucket
    mu,             \* InMemoryRateLimiter.mu: 0 or the request that holds it
    requests        \* the requests the router has accepted, in arrival order

\* The state of the running router.
serving == <<now, buckets, mu, requests>>

vars == <<handlers, handlers0, cleanBuildDir, dirs, files, pc, err, status,
          written, pre, run, out1, prog, ppc, source, calls, surfaced,
          groups, serving>>

----------------------------------------------------------------------------
(* Bounds of the model.                                                    *)

MaxHandlers == 2    \* longest handler list explored
MaxRuns == 2        \* Generate calls on one Generator
MaxLines == 2       \* longest free-form annotation block explored
MaxValidated == 2   \* longest mixed handler list given to the Validator
MaxName == 4        \* longest symbol name built from the name alphabet
MaxFiles == 2       \* most files in a scanned handlers directory

----------------------------------------------------------------------------
(* Names and the name-casing transform.                                    *)

Lower ==
    ("A" :> "a") @@ ("B" :> "b") @@ ("C" :> "c") @@ ("H" :> "h") @@
    ("P" :> "p") @@ ("T" :> "t") @@ ("U" :> "u")

IsUpper(r) == r \in DOMAIN Lower

ToLowerRune(r) == IF IsUpper(r) THEN Lower[r] ELSE r

RECURSIVE Str(_)
Str(s) == IF s = <<>> THEN "" ELSE Head(s) \o Str(Tail(s))

\* A transform that keeps a run of uppercase letters together.
RECURSIVE KebabFromWords(_, _)
KebabFromWords(s, i) ==
    IF i > Len(s) THEN ""
    ELSE (IF i > 1 /\ IsUpper(s[i]) /\ ~IsUpper(s[i - 1]) THEN "-" ELSE "")
         \o ToLowerRune(s[i]) \o KebabFromWords(s, i + 1)

\* The loop of toKebabCase from rune i on, followed by strings.ToLower.
RECURSIVE KebabFrom(_, _)
KebabFrom(s, i) ==
    IF i > Len(s) THEN ""
    ELSE (IF i > 1 /\ IsUpper(s[i]) THEN "-" ELSE "")
         \o ToLowerRune(s[i]) \o KebabFrom(s, i + 1)

toKebabCase(s) == KebabFrom(s, 1)

RECURSIVE TrimLeft(_)
TrimLeft(s) == IF s # <<>> /\ Head(s) = " " THEN TrimLeft(Tail(s)) ELSE s

RECURSIVE TrimRight(_)
TrimRight(s) ==
    IF s # <<>> /\ s[Len(s)] = " "
    THEN TrimRight(SubSeq(s, 1, Len(s) - 1)) ELSE s

\* strings.TrimSpace
TrimSpace(s) == TrimRight(TrimLeft(s))

\* strings.HasPrefix and strings.TrimPrefix
HasPrefix(s, p) == Len(s) >= Len(p) /\ SubSeq(s, 1, Len(p)) = p

HasSuffix(s, p) ==
    Len(s) >= Len(p) /\ SubSeq(s, Len(s) - Len(p) + 1, Len(s)) = p

TrimPrefix(s, p) ==
    IF HasPrefix(s, p) THEN SubSeq(s, Len(p) + 1, Len(s)) ELSE s

\* strings.Replace(s, old, new, 1): the first occurrence of old, scanning
\* from position i, is replaced by new.
RECURSIVE ReplaceFrom(_, _, _, _)
ReplaceFrom(s, old, new, i) ==
    IF i + Len(old) - 1 > Len(s) THEN s
    ELSE IF SubSeq(s, i, i + Len(old) - 1) = old
    THEN SubSeq(s, 1, i - 1) \o new \o SubSeq(s, i + Len(old), Len(s))
    ELSE ReplaceFrom(s, old, new, i + 1)

ReplaceFirst(s, old, new) == ReplaceFrom(s, old, new, 1)

----------------------------------------------------------------------------
(* The handler model.                                                      *)

DeploymentFunction == "function"
DeploymentContainer == "container"

FunctionNames == { <<"A", "B">>, <<"C">> }
PackageNames == { <<"u">>, <<"U">>, <<>> }
ServiceNames == { <<>>, <<"c">> }
PathU == <<"/", "u">>
PathHealth == <<"/", "h", "e", "a", "l", "t", "h">>
Routes == { [Method |-> "GET", Path |-> PathU],
            [Method |-> "POST", Path |-> PathU],
            [Method |-> "GET", Path |-> PathHealth] }

AuthRequired == "required"
AuthOptional == "optional"
AuthNone == "none"

\* RateLimit and CORS are pointers in the source: set says whether the
\* pointer is non-nil.  Durations are whole seconds.
NilRateLimit == [set |-> FALSE, Count |-> 0, Period |-> 0]
NilCORS == [set |-> FALSE, AllowedOrigins |-> <<>>]

\* The fields of a Handler that no annotation has set.
Unset ==
    [Auth |-> AuthNone, RateLimit |-> NilRateLimit, CORS |-> NilCORS,
     Timeout |-> 0, Memory |-> <<>>, Concurrency |-> 0]

Handler ==
    { base @@ Unset :
        base \in [FunctionName : FunctionNames, PackageName : PackageNames,
                  DeploymentType : {DeploymentFunction, DeploymentContainer},
                  ServiceName : ServiceNames, Route : Routes] }

RECURSIVE SelectSeq2(_, _)
SelectSeq2(s, dt) ==
    IF s = <<>> THEN <<>>
    ELSE (IF Head(s).DeploymentType = dt THEN <<Head(s)>> ELSE <<>>)
         \o SelectSeq2(Tail(s), dt)

\* A filter that lets every handler through.
filterNothing(hs) == hs

filterFunctionHandlers(hs) == SelectSeq2(hs, DeploymentFunction)

filterContainerHandlers(hs) == SelectSeq2(hs, DeploymentContainer)

----------------------------------------------------------------------------
(* The output tree and the file operations the emitters use.               *)

NoContent == [kind |-> "none", data |-> <<>>]
Truncated == [kind |-> "truncated", data |-> <<>>]
StaleContent == [kind |-> "stale", data |-> <<>>]

Content(kind, data) == [kind |-> kind, data |-> data]

\* filepath.Join: an empty element is dropped.
Join(path, seg) == IF seg = "" THEN path ELSE Append(path, seg)

Prefixes(path) == { SubSeq(path, 1, n) : n \in 0..Len(path) }

Parent(path) == SubSeq(path, 1, Len(path) - 1)

IsUnder(path, dir) ==
    Len(path) >= Len(dir) /\ SubSeq(path, 1, Len(dir)) = dir

\* One file operation of an emitter: os.MkdirAll of a directory, or
\* os.Create of a file followed by the execution of its template.  unit
\* and step are what the error wrapping names when the operation fails.
MkdirOp(path, unit, step) ==
    [op |-> "mkdir", path |-> path, content |-> NoContent,
     unit |-> unit, step |-> step]

WriteOp(path, content, unit, step) ==
    [op |-> "write", path |-> path, content |-> content,
     unit |-> unit, step |-> step]

\* Whether the operation can succeed on the tree t: MkdirAll fails when a
\* file sits on the path, os.Create fails when the parent directory is
\* missing or the path is a directory.
CanSucceed(t, o) ==
    IF o.op = "mkdir"
    THEN \A p \in Prefixes(o.path) : p \notin DOMAIN t.files
    ELSE Parent(o.path) \in t.dirs /\ o.path \notin t.dirs

ApplyOp(t, o) ==
    IF o.op = "mkdir"
    THEN [t EXCEPT !.dirs = @ \cup Prefixes(o.path)]
    ELSE [t EXCEPT !.files =
              [p \in DOMAIN @ \cup {o.path} |->
                  IF p = o.path THEN o.content ELSE @[p]]]

\* The trees an emitter goes through: element n + 1 is the tree after the
\* first n operations of ops, and whether all of them could succeed.
RECURSIVE ApplyOps(_, _, _)
ApplyOps(t, ops, n) ==
    IF n = 0 THEN <<[tree |-> t, ok |-> TRUE]>>
    ELSE LET before == ApplyOps(t, ops, n - 1)
             r == before[n]
         IN  Append(before,
                    IF r.ok /\ CanSucceed(r.tree, ops[n])
                    THEN [tree |-> ApplyOp(r.tree, ops[n]), ok |-> TRUE]
                    ELSE [tree |-> r.tree, ok |-> FALSE])

\* A clean step that reports success and removes nothing.
RemoveAllNothing(t) == t

\* os.RemoveAll(root) that succeeds: nothing is left, the root included.
\* A root that does not exist is not an error.
RemoveAllOk(t) == [dirs |-> {}, files |-> << >>]

\* os.RemoveAll(root) that fails on the entry stuck: it removes what it
\* can and reports the error; stuck and the directories above it remain.
RemoveAllFailed(t, stuck) ==
    [dirs |-> { d \in t.dirs : IsUnder(stuck, d) },
     files |-> [p \in {stuck} \cap DOMAIN t.files |-> t.files[p]]]

----------------------------------------------------------------------------
(* Ordering of names (byte order of the strings) and sorted slices.        *)

Code == ("/" :> 47) @@ ("h" :> 104) @@ ("A" :> 65) @@ ("B" :> 66) @@ ("C" :> 67) @@ ("U" :> 85) @@
        ("a" :> 97) @@ ("b" :> 98) @@ ("c" :> 99) @@ ("d" :> 100) @@
        ("e" :> 101) @@ ("f" :> 102) @@ ("l" :> 108) @@ ("t" :> 116) @@
        ("u" :> 117)

RECURSIVE LessName(_, _)
LessName(a, b) ==
    IF b = <<>> THEN FALSE
    ELSE IF a = <<>> THEN TRUE
    ELSE IF Head(a) # Head(b) THEN Code[Head(a)] < Code[Head(b)]
    ELSE LessName(Tail(a), Tail(b))

\* All the orders in which the elements of S can be enumerated.
Orders(S) ==
    { s \in [1..Cardinality(S) -> S] :
        \A i, j \in 1..Cardinality(S) : i # j => s[i] # s[j] }

\* sort.Strings of the set S of names.
SortedNames(S) ==
    CHOOSE s \in Orders(S) :
        \A i, j \in 1..Cardinality(S) : i < j => LessName(s[i], s[j])

RECURSIVE Flatten(_)
Flatten(ss) == IF ss = <<>> THEN <<>> ELSE Head(ss) \o Flatten(Tail(ss))

----------------------------------------------------------------------------
(* Configuration of the Generator (Config after NewGenerator's defaults).  *)

ModuleName == "example.com/app"
ProjectID == "PROJECT_ID"
Region == "us-central1"

----------------------------------------------------------------------------
(* Function Emitter.                                                       *)

FunctionsDir == <<"functions">>

\* generateFunctionYAML: "256Mi" when the memory is unset, else the memory
\* with its first "MB" replaced by "Mi".
functionMemory(h) ==
    IF h.Memory = <<>> THEN <<"2", "5", "6", "M", "i">>
    ELSE ReplaceFirst(h.Memory, <<"M", "B">>, <<"M", "i">>)

\* generateFunctionYAML: the timeout in whole seconds, 60 when it is zero.
functionTimeoutSeconds(h) == IF h.Timeout = 0 THEN 60 ELSE h.Timeout

\* generateFunction: the package directory of one function handler.
generateFunction(h) ==
    LET functionDir == Join(FunctionsDir, toKebabCase(h.FunctionName))
        unit == Str(h.FunctionName)
    IN  << MkdirOp(functionDir, unit, "function directory"),
           WriteOp(Join(functionDir, "main.go"),
                   Content("entrypoint",
                           <<Str(h.FunctionName), Str(h.PackageName),
                             ModuleName>>),
                   unit, "entrypoint"),
           WriteOp(Join(functionDir, "go.mod"),
                   Content("gomod",
                           <<toKebabCase(h.FunctionName), ModuleName>>),
                   unit, "go.mod"),
           WriteOp(Join(functionDir, "function.yaml"),
                   Content("function",
                           <<Str(h.FunctionName), Str(h.FunctionName),
                             functionMemory(h), functionTimeoutSeconds(h),
                             "go122">>),
                   unit, "function.yaml"),
           WriteOp(Join(functionDir, "deploy.sh"),
                   Content("deploy",
                           <<toKebabCase(h.FunctionName), "us-central1",
                             Str(h.FunctionName)>>),
                   unit, "deploy script") >>

\* FunctionGenerator.Generate over fg.handlers.
FunctionGenerate(fhs) ==
    IF Len(fhs) = 0 THEN <<>>
    ELSE <<MkdirOp(FunctionsDir, "", "functions directory")>>
         \o Flatten([i \in 1..Len(fhs) |-> generateFunction(fhs[i])])

----------------------------------------------------------------------------
(* Container Emitter.                                                      *)

\* A NewGenerator that gives the Container Emitter the functions directory.
ContainersDirWrong == <<"functions">>

ContainersDir == <<"containers">>

DefaultService == <<"d", "e", "f", "a", "u", "l", "t">>

\* The key under which groupHandlers files a handler in serviceMap.
serviceName(h) ==
    IF h.PackageName = <<>> THEN DefaultService ELSE h.PackageName

\* serviceMap[name] of groupHandlers: the handlers filed under name, in
\* list order.
RECURSIVE HandlersOfService(_, _)
HandlersOfService(chs, name) ==
    IF chs = <<>> THEN <<>>
    ELSE (IF serviceName(Head(chs)) = name THEN <<Head(chs)>> ELSE <<>>)
         \o HandlersOfService(Tail(chs), name)

\* serviceMap of groupHandlers: one ServiceGroup per key, its handlers in
\* list order.
serviceMap(chs) ==
    { [Name |-> n, Handlers |-> HandlersOfService(chs, n)] :
        n \in { serviceName(chs[i]) : i \in 1..Len(chs) } }

\* groupHandlers: the groups in the order the runtime iterates serviceMap,
\* which Go leaves unspecified: every order is a possible result.
groupHandlers(chs) == Orders(serviceMap(chs))

\* The route registrations of the server entry point of a group.
Registration(h) ==
    [Method |-> h.Route.Method, Path |-> Str(h.Route.Path),
     PackageName |-> Str(h.PackageName),
     FunctionName |-> Str(h.FunctionName)]

\* generateService: the package directory of one service group.
generateService(group) ==
    LET serviceDir == Join(ContainersDir, toKebabCase(group.Name))
        unit == Str(group.Name)
    IN  << MkdirOp(serviceDir, unit, "service directory"),
           WriteOp(Join(serviceDir, "main.go"),
                   Content("servermain",
                           <<Str(group.Name), ModuleName,
                             [i \in 1..Len(group.Handlers) |->
                                 Registration(group.Handlers[i])]>>),
                   unit, "main.go"),
           WriteOp(Join(serviceDir, "Dockerfile"),
                   Content("dockerfile", <<Str(group.Name), ModuleName>>),
                   unit, "Dockerfile"),
           WriteOp(Join(serviceDir, "cloudbuild.yaml"),
                   Content("cloudbuild",
                           <<toKebabCase(group.Name), "us-central1">>),
                   unit, "cloudbuild.yaml"),
           WriteOp(Join(serviceDir, "deploy.sh"),
                   Content("deploy",
                           <<toKebabCase(group.Name), "us-central1">>),
                   unit, "deploy script") >>

\* ContainerGenerator.Generate over cg.handlers, with the groups taken in
\* the order serviceGroups.
ContainerGenerate(chs, serviceGroups) ==
    IF Len(chs) = 0 THEN <<>>
    ELSE <<MkdirOp(ContainersDir, "", "containers directory")>>
         \o Flatten([i \in 1..Len(serviceGroups) |->
                        generateService(serviceGroups[i])])

----------------------------------------------------------------------------
(* Gateway Emitter.                                                        *)

GatewayDir == <<"gateway">>

\* strings.ToLower of an HTTP method.
LowerMethod == ("GET" :> "get") @@ ("POST" :> "post")

\* getBackendURL: the backend address of a handler.
getBackendURL(h) ==
    IF h.DeploymentType = DeploymentFunction
    THEN "https://" \o Region \o "-" \o ProjectID \o ".cloudfunctions.net/"
         \o toKebabCase(h.FunctionName)
    ELSE IF h.DeploymentType = DeploymentContainer
    THEN "https://" \o toKebabCase(h.PackageName) \o "-" \o Region
         \o ".run.app"
    ELSE ""

\* A security requirement that only a required token brings about.
buildSecurityRequiredOnly(h) ==
    IF h.Auth = AuthRequired THEN << "bearerAuth" >> ELSE << >>

\* buildSecurityRequirement: nil for AuthNone, else the one bearerAuth
\* requirement.
buildSecurityRequirement(h) ==
    IF h.Auth = AuthNone THEN << >> ELSE << "bearerAuth" >>

\* buildResponses: the keys of the response map.
buildResponses(h) ==
    {"200", "400", "500"}
    \cup (IF h.Auth # AuthNone THEN {"401", "403"} ELSE {})
    \cup (IF h.RateLimit.set THEN {"429"} ELSE {})
    \cup (IF h.Route.Method = "POST" THEN {"201"} ELSE {})

\* hasAuthentication: some handler has an auth type other than AuthNone.
hasAuthentication(hs) == \E i \in 1..Len(hs) : hs[i].Auth # AuthNone

\* The OpenAPIOperation groupHandlersByPath builds for a handler.
Operation(h) ==
    [OperationID |-> Str(h.FunctionName),
     Summary |-> h.Route.Method \o " " \o Str(h.Route.Path),
     Tags |-> <<Str(h.PackageName)>>,
     Security |-> buildSecurityRequirement(h),
     Responses |-> buildResponses(h),
     Backend |-> getBackendURL(h)]

\* pathMap[path].Operations after the loop of groupHandlersByPath over the
\* first n handlers: a later handler replaces an earlier one on the same
\* path and method.
RECURSIVE OperationsOf(_, _, _)
OperationsOf(hs, path, n) ==
    IF n = 0 THEN << >>
    ELSE LET before == OperationsOf(hs, path, n - 1)
             h == hs[n]
             m == LowerMethod[h.Route.Method]
         IN  IF h.Route.Path # path THEN before
             ELSE [k \in DOMAIN before \cup {m} |->
                      IF k = m THEN Operation(h) ELSE before[k]]

\* groupHandlersByPath: one OpenAPIPath per route path, sorted by path.
groupHandlersByPath(hs) ==
    LET sorted == SortedNames({ hs[i].Route.Path : i \in 1..Len(hs) })
    IN  [i \in 1..Len(sorted) |->
            [Path |-> Str(sorted[i]),
             Operations |-> OperationsOf(hs, sorted[i], Len(hs))]]

\* extractTags: the non-empty package names, sorted.
extractTags(hs) ==
    LET sorted == SortedNames({ hs[i].PackageName : i \in 1..Len(hs) }
                              \ {<<>>})
    IN  [i \in 1..Len(sorted) |-> Str(sorted[i])]

\* GatewayGenerator.Generate over all the handlers.
GatewayGenerate(hs) ==
    IF Len(hs) = 0 THEN <<>>
    ELSE << MkdirOp(GatewayDir, "", "gateway directory"),
            WriteOp(Join(GatewayDir, "openapi.yaml"),
                    Content("openapi",
                            <<groupHandlersByPath(hs), extractTags(hs),
                              hasAuthentication(hs), ProjectID, Region,
                              ModuleName>>),
                    "", "OpenAPI spec"),
            WriteOp(Join(GatewayDir, "gateway-config.yaml"),
                    Content("gatewayconfig",
                            <<ProjectID, Region, "wylla-api">>),
                    "", "gateway config"),
            WriteOp(Join(GatewayDir, "deploy.sh"),
                    Content("deploy", <<"wylla-api", Region>>),
                    "", "deploy script") >>

----------------------------------------------------------------------------
(* Infrastructure Emitter.                                                 *)

TerraformDir == <<"terraform">>

ModulesDir == Join(TerraformDir, "modules")

\* getServiceAccounts: the non-empty package names of hs, sorted.
getServiceAccounts(hs) ==
    SortedNames({ hs[i].PackageName : i \in 1..Len(hs) } \ {<<>>})

\* groupHandlersByPackage: the groups by package name, sorted by name.
groupHandlersByPackage(hs) ==
    LET sorted == SortedNames({ serviceName(hs[i]) : i \in 1..Len(hs) })
    IN  [i \in 1..Len(sorted) |->
            [Name |-> sorted[i],
             Handlers |-> HandlersOfService(hs, sorted[i])]]

\* The loop of toSnakeCase from rune i on, followed by strings.ToLower.
RECURSIVE SnakeFrom(_, _)
SnakeFrom(s, i) ==
    IF i > Len(s) THEN ""
    ELSE (IF i > 1 /\ IsUpper(s[i]) THEN "_" ELSE "")
         \o ToLowerRune(s[i]) \o SnakeFrom(s, i + 1)

toSnakeCase(s) == SnakeFrom(s, 1)

\* cloudFunctionsMainTemplate: the google_service_account resources it
\* declares, one per entry of .ServiceAccounts, and the account each
\* google_cloudfunctions_function refers to.
cloudFunctionsMainTemplate(data) ==
    [declared |-> [i \in 1..Len(data[2]) |-> toSnakeCase(data[2][i])],
     referred |-> [i \in 1..Len(data[1]) |->
                     toSnakeCase(data[1][i].PackageName)]]

\* cloudRunMainTemplate: the google_service_account resources it declares
\* and the account each google_cloud_run_service refers to.
cloudRunMainTemplate(data) ==
    [declared |-> [i \in 1..Len(data[2]) |-> toSnakeCase(data[2][i])],
     referred |-> [i \in 1..Len(data[1]) |-> toSnakeCase(data[1][i].Name)]]

generateModuleStructure ==
    LET step == "module structure"
    IN  << MkdirOp(Join(ModulesDir, "cloud-functions"), "", step),
           MkdirOp(Join(ModulesDir, "cloud-run"), "", step),
           MkdirOp(Join(ModulesDir, "api-gateway"), "", step),
           MkdirOp(Join(ModulesDir, "networking"), "", step),
           MkdirOp(Join(TerraformDir, "environments"), "", step) >>

\* The three files of a module, main.tf / variables.tf / outputs.tf.
ModuleFiles(module, step, mainData, outputsData) ==
    LET modulePath == Join(ModulesDir, module)
    IN  << WriteOp(Join(modulePath, "main.tf"),
                   Content(module \o "/main", mainData), "", step),
           WriteOp(Join(modulePath, "variables.tf"),
                   Content(module \o "/variables", <<>>), "", step),
           WriteOp(Join(modulePath, "outputs.tf"),
                   Content(module \o "/outputs", outputsData), "", step) >>

generateCloudFunctionsModule(hs) ==
    LET functions == filterFunctionHandlers(hs)
    IN  IF Len(functions) = 0 THEN <<>>
        ELSE ModuleFiles("cloud-functions", "cloud-functions module",
                         <<functions, getServiceAccounts(functions)>>,
                         <<functions>>)

generateCloudRunModule(hs) ==
    LET containers == filterContainerHandlers(hs)
    IN  IF Len(containers) = 0 THEN <<>>
        ELSE ModuleFiles("cloud-run", "cloud-run module",
                         <<groupHandlersByPackage(containers),
                           getServiceAccounts(containers)>>,
                         <<groupHandlersByPackage(containers)>>)

generateAPIGatewayModule(hs) ==
    IF Len(hs) = 0 THEN <<>>
    ELSE ModuleFiles("api-gateway", "api-gateway module", <<>>, <<>>)

generateNetworkingModule ==
    ModuleFiles("networking", "networking module", <<>>, <<>>)

\* Root data that announce both hosting modules whatever the handlers are.
RootDataBoth(hs) == [HasFunctions |-> TRUE, HasContainers |-> TRUE]

\* The data of the root main.tf, outputs.tf and README.md templates.
RootData(hs) ==
    [HasFunctions |-> Len(filterFunctionHandlers(hs)) > 0,
     HasContainers |-> Len(filterContainerHandlers(hs)) > 0]

\* rootMainTemplate: the modules the root main.tf names as a source when
\* the template is executed on data.
rootMainTemplate(data) ==
    (IF data.HasFunctions THEN {"cloud-functions"} ELSE {})
    \cup (IF data.HasContainers THEN {"cloud-run"} ELSE {})
    \cup {"api-gateway", "networking"}

Environments == <<"dev", "staging", "production">>

\* An emitter that writes the variable file of the environment its
\* Generator was built for, with the project id it was built for.
generateRequestedEnvironmentFile ==
    << WriteOp(Join(Join(TerraformDir, "environments"),
                    source.environment \o ".tfvars"),
               Content("tfvars", <<source.environment, source.projectID>>),
               "", "environment files") >>

generateEnvironmentFiles ==
    [i \in 1..Len(Environments) |->
        WriteOp(Join(Join(TerraformDir, "environments"),
                     Environments[i] \o ".tfvars"),
                Content("tfvars", <<Environments[i]>>),
                "", "environment files")]

\* TerraformGenerator.Generate over all the handlers.
TerraformGenerate(hs) ==
    IF Len(hs) = 0 THEN <<>>
    ELSE <<MkdirOp(TerraformDir, "", "terraform directory")>>
         \o generateModuleStructure
         \o generateCloudFunctionsModule(hs)
         \o generateCloudRunModule(hs)
         \o generateAPIGatewayModule(hs)
         \o generateNetworkingModule
         \o << WriteOp(Join(TerraformDir, "main.tf"),
                       Content("root/main", <<RootData(hs)>>),
                       "", "root main.tf"),
               WriteOp(Join(TerraformDir, "variables.tf"),
                       Content("root/variables", <<>>),
                       "", "variables.tf"),
               WriteOp(Join(TerraformDir, "outputs.tf"),
                       Content("root/outputs", <<RootData(hs)>>),
                       "", "outputs.tf") >>
         \o generateEnvironmentFiles
         \o << WriteOp(Join(TerraformDir, ".gitignore"),
                       Content("gitignore", <<>>), "", ".gitignore"),
               WriteOp(Join(TerraformDir, "README.md"),
                       Content("readme", <<RootData(hs)>>),
                       "", "README.md") >>

----------------------------------------------------------------------------
(* Build Orchestrator: Generator.Generate.                                 *)

Emitters == <<"functions", "containers", "gateway", "terraform">>

EmitterDir ==
    ("functions" :> FunctionsDir) @@ ("containers" :> ContainersDir) @@
    ("gateway" :> GatewayDir) @@ ("terraform" :> TerraformDir)

\* The stage each wrapped error of Generate names.
Stage ==
    ("functions" :> "cloud functions") @@
    ("containers" :> "cloud run containers") @@
    ("gateway" :> "API Gateway configuration") @@
    ("terraform" :> "Terraform infrastructure")

NoErr == [stage |-> "", unit |-> "", step |-> ""]

\* A Generate that runs the Gateway Emitter before the Container Emitter.
GenerateOrderSwapped ==
    <<"clean", "mkroot", "functions", "gateway", "containers", "terraform",
      "done">>

\* The statements of Generate in program order.
GenerateOrder ==
    <<"clean", "mkroot", "functions", "containers", "gateway", "terraform",
      "done">>

\* The statement Generate goes on with after the statement p succeeded.
After(p) ==
    GenerateOrder[(CHOOSE i \in 1..Len(GenerateOrder) - 1 :
                      GenerateOrder[i] = p) + 1]

\* A Generate that logs a failure and carries on with the next statement.
OnErrorContinue(next) == next

\* Where Generate goes when a statement failed and the statement after it
\* would be next: every failure is returned at once.
OnError(next) == "done"

Tree == [dirs |-> dirs, files |-> files]

NoTree == [valid |-> FALSE, fromClean |-> FALSE, dirs |-> {},
           files |-> << >>]

\* Whether the tree t is a clean output root: absent, or present and empty.
IsClean(t) == t.dirs \subseteq {<<>>} /\ DOMAIN t.files = {}

\* The output tree (d, f) a successful Generate call left, and whether the
\* call worked on a clean output root.
Snapshot(d, f) ==
    [valid |-> TRUE, fromClean |-> cleanBuildDir \/ IsClean(pre),
     dirs |-> d, files |-> f]

\* What the first n operations of ops created, on the way from the tree t
\* to the tree after.
Created(t, after, ops, n, by) ==
    { [path |-> p, by |-> by] :
        p \in (after.dirs \ t.dirs)
              \cup { ops[i].path : i \in { j \in 1..n : ops[j].op = "write" } } }

\* The caller invokes Generate on the Generator.
EnterGenerate ==
    /\ run < MaxRuns
    /\ run' = run + 1
    /\ pc' = GenerateOrder[1]
    /\ err' = NoErr
    /\ status' = [e \in {"functions", "containers", "gateway", "terraform"}
                    |-> "pending"]
    /\ written' = {}
    /\ pre' = Tree
    /\ UNCHANGED <<serving, handlers, handlers0, cleanBuildDir, dirs, files, out1,
                   source, surfaced, groups>>

\* Generate returns err (NoErr on success) and control goes to target.
Return(e, target) ==
    /\ pc' = target
    /\ err' = e
    /\ out1' = IF e = NoErr /\ out1 = NoTree
               THEN Snapshot(dirs', files')
               ELSE out1

\* if g.cleanBuildDir { os.RemoveAll(g.outputDir) }
GenClean ==
    /\ pc = "clean"
    /\ \/ /\ ~cleanBuildDir
          /\ pc' = After("clean")
          /\ UNCHANGED <<dirs, files, err, out1>>
       \/ /\ cleanBuildDir
          /\ dirs' = RemoveAllOk(Tree).dirs
          /\ files' = RemoveAllOk(Tree).files
          /\ pc' = After("clean")
          /\ UNCHANGED <<err, out1>>
       \/ /\ cleanBuildDir
          /\ \E stuck \in dirs \cup DOMAIN files :
                /\ dirs' = RemoveAllFailed(Tree, stuck).dirs
                /\ files' = RemoveAllFailed(Tree, stuck).files
          /\ Return([stage |-> "clean build directory", unit |-> "",
                     step |-> ""], OnError(After("clean")))
    /\ UNCHANGED <<serving, handlers, handlers0, cleanBuildDir, status, written, pre,
                   run, prog, ppc, source, calls, surfaced, groups>>

\* os.MkdirAll(g.outputDir, 0755)
GenMkRoot ==
    /\ pc = "mkroot"
    /\ \/ /\ dirs' = dirs \cup {<<>>}
          /\ written' = written \cup
                 { [path |-> p, by |-> "orchestrator"] : p \in {<<>>} \ dirs }
          /\ pc' = After("mkroot")
          /\ UNCHANGED <<err, out1>>
       \/ /\ <<>> \notin dirs
          /\ Return([stage |-> "output directory", unit |-> "", step |-> ""],
                    OnError(After("mkroot")))
          /\ UNCHANGED <<dirs, written>>
    /\ UNCHANGED <<serving, handlers, handlers0, cleanBuildDir, files, status, pre,
                   run, prog, ppc, source, calls, surfaced, groups>>

\* One emitter stage of Generate: the emitter e is skipped when its input
\* is empty; otherwise its operations ops run in order until one fails.
\* A failed os.Create leaves no file, a failed template execution leaves
\* the file created and incomplete.
RunEmitter(e, input, emitted, next) ==
    /\ pc = e
    /\ \/ /\ Len(input) = 0
          /\ status' = [status EXCEPT ![e] = "skipped"]
          /\ pc' = next
          /\ out1' = IF next = "done" /\ out1 = NoTree
                     THEN Snapshot(dirs, files)
                     ELSE out1
          /\ UNCHANGED <<dirs, files, err, written>>
       \/ /\ Len(input) > 0
          /\ \E ops \in {emitted} :
             \E trees \in {ApplyOps(Tree, ops, Len(ops))} :
             LET n == Len(ops)
             IN  \/ /\ trees[n + 1].ok
                    /\ dirs' = trees[n + 1].tree.dirs
                    /\ files' = trees[n + 1].tree.files
                    /\ written' = written \cup
                          Created(Tree, trees[n + 1].tree, ops, n, e)
                    /\ status' = [status EXCEPT ![e] = "ok"]
                    /\ IF next = "done"
                       THEN Return(NoErr, "done")
                       ELSE pc' = next /\ UNCHANGED <<err, out1>>
                 \/ \E k \in 1..n :
                       LET r == trees[k]
                           o == ops[k]
                       IN  /\ r.ok
                           /\ dirs' = r.tree.dirs
                           /\ \/ /\ files' = r.tree.files
                                 /\ written' = written \cup
                                       Created(Tree, r.tree, ops, k - 1, e)
                              \/ /\ o.op = "write"
                                 /\ CanSucceed(r.tree, o)
                                 /\ files' = ApplyOp(r.tree,
                                       [o EXCEPT !.content = Truncated]).files
                                 /\ written' = written \cup
                                       Created(Tree, r.tree, ops, k - 1, e)
                                       \cup {[path |-> o.path, by |-> e]}
                           /\ status' = [status EXCEPT ![e] = "failed"]
                           /\ Return([stage |-> Stage[e], unit |-> o.unit,
                                      step |-> o.step], OnError(next))
    /\ UNCHANGED <<serving, handlers, handlers0, cleanBuildDir, pre, run, prog, ppc,
                   source, calls, surfaced>>

GenFunctions ==
    /\ RunEmitter("functions", filterFunctionHandlers(handlers),
                  FunctionGenerate(filterFunctionHandlers(handlers)),
                  After("functions"))
    /\ UNCHANGED groups

GenContainers ==
    \E serviceGroups \in groupHandlers(filterContainerHandlers(handlers)) :
        /\ RunEmitter("containers", filterContainerHandlers(handlers),
                      ContainerGenerate(filterContainerHandlers(handlers),
                                        serviceGroups),
                      After("containers"))
        /\ groups' = serviceGroups

GenGateway ==
    /\ RunEmitter("gateway", handlers, GatewayGenerate(handlers),
                  After("gateway"))
    /\ UNCHANGED groups

GenTerraform ==
    /\ RunEmitter("terraform", handlers, TerraformGenerate(handlers),
                  After("terraform"))
    /\ UNCHANGED groups

Generate == GenClean \/ GenMkRoot \/ GenFunctions \/ GenContainers
            \/ GenGateway \/ GenTerraform

----------------------------------------------------------------------------
(* Semantic Validator.                                                     *)

AnnotationError(h, annotation, reason) ==
    [Handler |-> Str(h.FunctionName), Annotation |-> annotation,
     Reason |-> reason]

Count(s, r) == Cardinality({ i \in 1..Len(s) : s[i] = r })

\* strings.Split(path, "/")
RECURSIVE SplitSlash(_, _)
SplitSlash(s, part) ==
    IF s = <<>> THEN <<part>>
    ELSE IF Head(s) = "/" THEN <<part>> \o SplitSlash(Tail(s), <<>>)
    ELSE SplitSlash(Tail(s), Append(part, Head(s)))

hasValidPathParams(path) ==
    /\ Count(path, "{") = Count(path, "}")
    /\ LET parts == SplitSlash(path, <<>>)
       IN  \A i \in 1..Len(parts) :
              LET part == parts[i]
                  noSuffix == IF part # <<>> /\ part[Len(part)] = "}"
                              THEN SubSeq(part, 1, Len(part) - 1) ELSE part
                  paramName == IF noSuffix # <<>> /\ Head(noSuffix) = "{"
                               THEN Tail(noSuffix) ELSE noSuffix
              IN  Count(part, "{") > 0 =>
                     /\ Head(part) = "{"
                     /\ part[Len(part)] = "}"
                     /\ Len(paramName) # 0

validatePath(h) ==
    LET path == h.Route.Path
    IN  (IF Head(path) # "/"
         THEN <<AnnotationError(h, "@wylla:path", "Path must start with '/'")>>
         ELSE <<>>)
        \o
        (IF Len(path) > 1 /\ path[Len(path)] = "/"
         THEN <<AnnotationError(h, "@wylla:path",
                                "Path should not end with '/'")>>
         ELSE <<>>)
        \o
        (IF (Count(path, "{") > 0 \/ Count(path, "}") > 0)
            /\ ~hasValidPathParams(path)
         THEN <<AnnotationError(h, "@wylla:path",
                                "Invalid path parameter syntax")>>
         ELSE <<>>)

validMemory ==
    { <<"1", "2", "8", "M", "B">>,
      <<"2", "5", "6", "M", "B">>,
      <<"5", "1", "2", "M", "B">>,
      <<"1", "G", "B">>, <<"2", "G", "B">>,
      <<"4", "G", "B">>, <<"8", "G", "B">>,
      <<"1", "6", "G", "B">> }

validateFunctionConfig(h) ==
    (IF h.Memory # <<>> /\ h.Memory \notin validMemory
     THEN <<AnnotationError(h, "@wylla:memory", "Invalid memory value")>>
     ELSE <<>>)
    \o
    (IF h.Concurrency > 0
     THEN <<AnnotationError(h, "@wylla:concurrency",
               "Concurrency is not applicable to Cloud Functions")>>
     ELSE <<>>)

validateContainerConfig(h) ==
    (IF h.Concurrency > 0
        /\ (h.Concurrency < 1 \/ h.Concurrency > 1000)
     THEN <<AnnotationError(h, "@wylla:concurrency",
               "Concurrency must be between 1 and 1000")>>
     ELSE <<>>)
    \o
    (IF h.Memory # <<>>
     THEN <<AnnotationError(h, "@wylla:memory",
               "Note: Memory for Cloud Run containers")>>
     ELSE <<>>)

\* Period.Hours() >= 1, the period being in whole seconds
validateRateLimit(h) ==
    (IF h.RateLimit.Count <= 0
     THEN <<AnnotationError(h, "@wylla:ratelimit",
               "Rate limit count must be positive")>>
     ELSE <<>>)
    \o
    (IF h.RateLimit.Count > 10000
     THEN <<AnnotationError(h, "@wylla:ratelimit",
               "Rate limit seems very high")>>
     ELSE <<>>)
    \o
    (IF h.RateLimit.Count < 10 /\ h.RateLimit.Period >= 3600
     THEN <<AnnotationError(h, "@wylla:ratelimit",
               "Rate limit seems very low")>>
     ELSE <<>>)

HTTP == <<"h", "t", "t", "p", ":", "/", "/">>
HTTPS == <<"h", "t", "t", "p", "s", ":", "/", "/">>

\* The loop of validateCORS over the first n origins.
RECURSIVE OriginErrors(_, _)
OriginErrors(h, n) ==
    IF n = 0 THEN <<>>
    ELSE LET origin == h.CORS.AllowedOrigins[n]
         IN  OriginErrors(h, n - 1)
             \o (IF origin # <<"*">> /\ ~HasPrefix(origin, HTTP)
                     /\ ~HasPrefix(origin, HTTPS)
                  THEN <<AnnotationError(h, "@wylla:cors",
                            "CORS origin must start with http:// or https://")>>
                  ELSE <<>>)

validateCORS(h) ==
    IF Len(h.CORS.AllowedOrigins) = 0
    THEN <<AnnotationError(h, "@wylla:cors",
              "CORS must specify at least one origin")>>
    ELSE OriginErrors(h, Len(h.CORS.AllowedOrigins))

validateTimeout(h) ==
    (IF h.DeploymentType = DeploymentFunction /\ h.Timeout > 540
     THEN <<AnnotationError(h, "@wylla:timeout",
               "Cloud Function timeout cannot exceed 540s")>>
     ELSE IF h.DeploymentType = DeploymentContainer /\ h.Timeout > 3600
     THEN <<AnnotationError(h, "@wylla:timeout",
               "Cloud Run timeout cannot exceed 3600s")>>
     ELSE <<>>)
    \o
    (IF h.Timeout < 5
     THEN <<AnnotationError(h, "@wylla:timeout", "Timeout is very short")>>
     ELSE <<>>)

\* A validateHandler that returns at the first rule that fails.
validateHandlerFirstOnly(h) ==
    IF h.DeploymentType = ""
    THEN <<AnnotationError(h, "@wylla:function or @wylla:container",
                           "Missing deployment type annotation")>>
    ELSE IF h.Route.Method = "" \/ h.Route.Path = <<>>
    THEN <<AnnotationError(h, "@wylla:path", "Missing path annotation")>>
    ELSE IF validatePath(h) # <<>> THEN validatePath(h)
    ELSE IF h.DeploymentType = DeploymentFunction
            /\ validateFunctionConfig(h) # <<>>
    THEN validateFunctionConfig(h)
    ELSE IF h.DeploymentType = DeploymentContainer
            /\ validateContainerConfig(h) # <<>>
    THEN validateContainerConfig(h)
    ELSE IF h.RateLimit.set /\ validateRateLimit(h) # <<>>
    THEN validateRateLimit(h)
    ELSE IF h.CORS.set /\ validateCORS(h) # <<>> THEN validateCORS(h)
    ELSE IF h.Timeout > 0 THEN validateTimeout(h)
    ELSE <<>>

validateHandler(h) ==
    (IF h.DeploymentType = ""
     THEN <<AnnotationError(h, "@wylla:function or @wylla:container",
                            "Missing deployment type annotation")>>
     ELSE <<>>)
    \o
    (IF h.Route.Method = "" \/ h.Route.Path = <<>>
     THEN <<AnnotationError(h, "@wylla:path", "Missing path annotation")>>
     ELSE <<>>)
    \o
    (IF h.Route.Path # <<>> THEN validatePath(h) ELSE <<>>)
    \o
    (IF h.DeploymentType = DeploymentFunction
     THEN validateFunctionConfig(h)
     ELSE IF h.DeploymentType = DeploymentContainer
     THEN validateContainerConfig(h)
     ELSE <<>>)
    \o
    (IF h.RateLimit.set THEN validateRateLimit(h) ELSE <<>>)
    \o
    (IF h.CORS.set THEN validateCORS(h) ELSE <<>>)
    \o
    (IF h.Timeout > 0 THEN validateTimeout(h) ELSE <<>>)

Validate(hs) == Flatten([i \in 1..Len(hs) |-> validateHandler(hs[i])])

\* The key of the seen map of ValidateUniquePaths.
RouteKey(h) == h.Route.Method \o " " \o Str(h.Route.Path)

\* A loop that records the latest handler of a route instead of the first.
RECURSIVE UniquePathsLoopLatest(_, _)
UniquePathsLoopLatest(hs, n) ==
    IF n = 0 THEN [errors |-> <<>>, seen |-> << >>]
    ELSE LET before == UniquePathsLoopLatest(hs, n - 1)
             h == hs[n]
             key == RouteKey(h)
             seen == [k \in DOMAIN before.seen \cup {key} |->
                         IF k = key THEN Str(h.FunctionName)
                         ELSE before.seen[k]]
         IN  IF key \in DOMAIN before.seen
             THEN [errors |->
                      Append(before.errors,
                             AnnotationError(h, "@wylla:path",
                                 "Duplicate route: " \o key
                                 \o " already defined in handler "
                                 \o before.seen[key])),
                   seen |-> seen]
             ELSE [before EXCEPT !.seen = seen]

\* ValidateUniquePaths after the first n handlers: the errors so far and
\* the seen map (route key -> name of the first handler with that route).
RECURSIVE UniquePathsLoop(_, _)
UniquePathsLoop(hs, n) ==
    IF n = 0 THEN [errors |-> <<>>, seen |-> << >>]
    ELSE LET before == UniquePathsLoop(hs, n - 1)
             h == hs[n]
             key == RouteKey(h)
         IN  IF key \in DOMAIN before.seen
             THEN [before EXCEPT !.errors =
                      Append(@, AnnotationError(h, "@wylla:path",
                                 "Duplicate route: " \o key
                                 \o " already defined in handler "
                                 \o before.seen[key]))]
             ELSE [before EXCEPT !.seen =
                      [k \in DOMAIN @ \cup {key} |->
                          IF k = key THEN Str(h.FunctionName) ELSE @[k]]]

ValidateUniquePaths(hs) == UniquePathsLoop(hs, Len(hs)).errors

----------------------------------------------------------------------------
(* The programs that drive the pipeline.                                   *)

\* A declaration of the handlers directory: box says whether its comment
\* block carries @box: annotations, h is the Handler they parse to.
SourceHandlers ==
    { base @@ Unset :
        base \in [FunctionName : FunctionNames, PackageName : {<<"u">>},
                  DeploymentType : {DeploymentFunction, DeploymentContainer,
                                    ""},
                  ServiceName : {<<>>},
                  Route : { r \in Routes : r.Method = "GET" }] }

Decl == [box : {TRUE}, h : SourceHandlers]
        \cup { [box |-> FALSE, h |-> CHOOSE h \in SourceHandlers : TRUE] }

\* ParseDirectory: one Handler per declaration that carries annotations.
RECURSIVE ParseDirectory(_)
ParseDirectory(src) ==
    IF src = <<>> THEN <<>>
    ELSE (IF Head(src).box THEN <<Head(src).h>> ELSE <<>>)
         \o ParseDirectory(Tail(src))

\* A caller of the build package builds a Generator and calls Generate.
ApiGenerate ==
    /\ prog = "api"
    /\ pc = "idle" \/ (pc = "done" /\ err = NoErr)
    /\ EnterGenerate
    /\ UNCHANGED <<prog, ppc, calls>>

\* buildGo: parser.ParseDirectory(handlersDir), parse errors are logged.
BuildParse ==
    /\ prog = "build" /\ ppc = "start"
    /\ handlers' = ParseDirectory(source)
    /\ handlers0' = ParseDirectory(source)
    /\ calls' = Append(calls, "parser")
    /\ ppc' = "parsed"
    /\ UNCHANGED <<serving, cleanBuildDir, dirs, files, pc, err, status, written, pre,
                   run, out1, prog, source, surfaced, groups>>

\* buildGo: no handlers found, os.Exit(0).
BuildNoHandlers ==
    /\ prog = "build" /\ ppc = "parsed"
    /\ Len(handlers) = 0
    /\ ppc' = "exit"
    /\ UNCHANGED <<serving, handlers, handlers0, cleanBuildDir, dirs, files, pc, err,
                   status, written, pre, run, out1, prog, source, calls,
                   surfaced, groups>>

\* buildGo: build.NewGenerator(...) and generator.Generate().
BuildGenerate ==
    /\ prog = "build" /\ ppc = "parsed"
    /\ Len(handlers) # 0
    /\ EnterGenerate
    /\ calls' = Append(calls, "generator")
    /\ ppc' = "generating"
    /\ UNCHANGED prog

\* buildGo: Generate returned; a failure is fatal, a success is reported.
BuildFinish ==
    /\ prog = "build" /\ ppc = "generating" /\ pc = "done"
    /\ ppc' = "exit"
    /\ UNCHANGED <<serving, handlers, handlers0, cleanBuildDir, dirs, files, pc, err,
                   status, written, pre, run, out1, prog, source, calls,
                   surfaced, groups>>

\* router.New: parser.ParseDirectory(config.HandlersDir).
RouterParse ==
    /\ prog = "router" /\ ppc = "start"
    /\ handlers' = ParseDirectory(source)
    /\ handlers0' = ParseDirectory(source)
    /\ calls' = Append(calls, "parser")
    /\ ppc' = "parsed"
    /\ UNCHANGED <<serving, cleanBuildDir, dirs, files, pc, err, status, written, pre,
                   run, out1, prog, source, surfaced, groups>>

\* router.New: Validate and ValidateUniquePaths; every error is logged and
\* any error makes New fail.
RouterValidate ==
    /\ prog = "router" /\ ppc = "parsed"
    /\ calls' = Append(calls, "validator")
    /\ surfaced' = Validate(handlers) \o ValidateUniquePaths(handlers)
    /\ ppc' = IF Len(surfaced') > 0 THEN "failed" ELSE "ready"
    /\ UNCHANGED <<serving, handlers, handlers0, cleanBuildDir, dirs, files, pc, err,
                   status, written, pre, run, out1, prog, source, groups>>

----------------------------------------------------------------------------
(* Specifications.                                                         *)

ListsOver(S) == UNION { [1..n -> S] : n \in 0..MaxHandlers }

AbsentTree == [dirs |-> {}, files |-> << >>]

EmptyTree == [dirs |-> {<<>>}, files |-> << >>]

\* An output root left by an earlier build: a stray file, a file Generate
\* writes again, and a package directory of a handler that is gone.
StaleTree ==
    [dirs |-> {<<>>, <<"gateway">>, <<"functions">>, <<"functions", "old">>},
     files |-> (<<"existing.txt">> :> StaleContent) @@
               (<<"gateway", "openapi.yaml">> :> StaleContent) @@
               (<<"functions", "old", "main.go">> :> StaleContent)]

InitialTrees == {AbsentTree, EmptyTree, StaleTree}

\* The handlers a caller of Generate passes in.  The service name, which
\* no emitter reads, and the route are held fixed here.
GenHandlers ==
    { h \in Handler : h.ServiceName = <<>>
                      /\ h.Route = [Method |-> "GET", Path |-> PathU] }

\* No router is serving while the generators, parsers and validators run.
NotServing ==
    /\ now = 0
    /\ buckets = <<>>
    /\ mu = 0
    /\ requests = <<>>

InitCommon ==
    /\ NotServing
    /\ cleanBuildDir \in BOOLEAN
    /\ \E t \in InitialTrees : dirs = t.dirs /\ files = t.files /\ pre = t
    /\ pc = "idle"
    /\ err = NoErr
    /\ status = [e \in {"functions", "containers", "gateway", "terraform"}
                   |-> "pending"]
    /\ written = {}
    /\ run = 0
    /\ out1 = NoTree
    /\ calls = <<>>
    /\ surfaced = <<>>
    /\ groups = <<>>

\* Spec: a Go program calls NewGenerator and Generate on a handler list.
Init ==
    /\ prog = "api" /\ ppc = "none"
    /\ source = <<>>
    /\ handlers \in ListsOver(GenHandlers)
    /\ handlers0 = handlers
    /\ InitCommon

Next == ApiGenerate \/ Generate

Spec == Init /\ [][Next]_vars

\* SpecBuild: the build CLI (buildGo) or the live router (router.New) runs
\* on a handlers directory.
InitBuild ==
    /\ prog \in {"build", "router"} /\ ppc = "start"
    /\ source \in ListsOver(Decl)
    /\ handlers = <<>>
    /\ handlers0 = <<>>
    /\ InitCommon

NextBuild == BuildParse \/ BuildNoHandlers \/ BuildGenerate \/ Generate
             \/ BuildFinish \/ RouterParse \/ RouterValidate

SpecBuild == InitBuild /\ [][NextBuild]_vars

\* SpecGroup: the grouping step of the Container Emitter applied to a list
\* of container handlers, with and without an explicit service name.
ContainerHandlers ==
    { h \in Handler : h.DeploymentType = DeploymentContainer
                      /\ h.Route = [Method |-> "GET", Path |-> PathU] }

\* serviceGroups := cg.groupHandlers()
GroupHandlers ==
    /\ pc = "idle"
    /\ groups' \in groupHandlers(filterContainerHandlers(handlers))
    /\ pc' = "grouped"
    /\ UNCHANGED <<serving, handlers, handlers0, cleanBuildDir, dirs, files, err,
                   status, written, pre, run, out1, prog, ppc, source, calls,
                   surfaced>>

InitGroup ==
    /\ prog = "api" /\ ppc = "none"
    /\ source = <<>>
    /\ handlers \in ListsOver(ContainerHandlers)
    /\ handlers0 = handlers
    /\ InitCommon

NextGroup == GroupHandlers

SpecGroup == InitGroup /\ [][NextGroup]_vars

----------------------------------------------------------------------------
(* The Go annotation parser.  The text of an annotation value is a         *)
(* sequence of one-character strings, parsed as the source parses it.      *)

\* strings.Split(s, sep) for a one-character separator
RECURSIVE Split(_, _, _)
Split(s, sep, part) ==
    IF s = <<>> THEN <<part>>
    ELSE IF Head(s) = sep THEN <<part>> \o Split(Tail(s), sep, <<>>)
    ELSE Split(Tail(s), sep, Append(part, Head(s)))

\* strings.Index(s, ch), counted from 1; 0 when ch does not occur
Index(s, ch) ==
    IF \E i \in 1..Len(s) : s[i] = ch
    THEN CHOOSE i \in 1..Len(s) :
            s[i] = ch /\ \A j \in 1..(i - 1) : s[j] # ch
    ELSE 0

\* strings.SplitN(s, sep, 2)
SplitN2(s, sep) ==
    IF Index(s, sep) = 0 THEN <<s>>
    ELSE <<SubSeq(s, 1, Index(s, sep) - 1),
           SubSeq(s, Index(s, sep) + 1, Len(s))>>

Upper == ("g" :> "G") @@ ("e" :> "E") @@ ("t" :> "T") @@ ("p" :> "P")
         @@ ("o" :> "O") @@ ("s" :> "S")

\* strings.ToUpper and strings.ToLower
ToUpper(s) ==
    [i \in 1..Len(s) |-> IF s[i] \in DOMAIN Upper THEN Upper[s[i]] ELSE s[i]]

ToLower(s) == [i \in 1..Len(s) |-> ToLowerRune(s[i])]

DigitVal == ("0" :> 0) @@ ("1" :> 1) @@ ("2" :> 2) @@ ("3" :> 3)
            @@ ("4" :> 4) @@ ("5" :> 5) @@ ("6" :> 6) @@ ("7" :> 7)
            @@ ("8" :> 8) @@ ("9" :> 9)

\* The number of leading decimal digits of s, and their value.
RECURSIVE DigitsLen(_)
DigitsLen(s) ==
    IF s # <<>> /\ Head(s) \in DOMAIN DigitVal
    THEN 1 + DigitsLen(Tail(s)) ELSE 0

RECURSIVE DigitsValue(_, _)
DigitsValue(s, n) ==
    IF n = 0 THEN 0
    ELSE 10 * DigitsValue(s, n - 1) + DigitVal[s[n]]

\* fmt.Sscanf(s, "%d", &v): leading spaces are skipped, a sign is
\* accepted, the digits that follow are the value; whatever comes after
\* them is left unread.  It fails when no digit is found.
ScanInt(s) ==
    LET t == TrimLeft(s)
        signed == t # <<>> /\ Head(t) \in {"+", "-"}
        body == IF signed THEN Tail(t) ELSE t
        n == DigitsLen(body)
        v == DigitsValue(body, n)
    IN  [ok |-> n > 0,
         val |-> IF signed /\ Head(t) = "-" THEN 0 - v ELSE v,
         rest |-> SubSeq(body, n + 1, Len(body))]

\* The %s verb: leading spaces are skipped, the token runs to the next
\* space.  It fails on an empty token.
ScanWord(s) ==
    LET t == TrimLeft(s)
        word == IF Index(t, " ") = 0 THEN t
                ELSE SubSeq(t, 1, Index(t, " ") - 1)
    IN  [ok |-> word # <<>>, val |-> word]

\* The result of one parseXxx call: the handler as it now is and whether
\* the call returned an error.
Parsed(h, failed) == [h |-> h, failed |-> failed]

ValidMethods == {"GET", "POST", "PUT", "DELETE", "PATCH", "OPTIONS", "HEAD"}

parsePath(h, value) ==
    LET parts == SplitN2(value, " ")
    IN  IF Len(parts) # 2 THEN Parsed(h, TRUE)
        ELSE LET method == Str(ToUpper(TrimSpace(parts[1])))
                 path == TrimSpace(parts[2])
             IN  IF method \notin ValidMethods THEN Parsed(h, TRUE)
                 ELSE IF ~HasPrefix(path, <<"/">>) THEN Parsed(h, TRUE)
                 ELSE Parsed([h EXCEPT !.Route =
                                 [Method |-> method, Path |-> path]], FALSE)

parseAuth(h, value) ==
    LET v == Str(ToLower(TrimSpace(value)))
    IN  IF v = "required" THEN Parsed([h EXCEPT !.Auth = AuthRequired], FALSE)
        ELSE IF v = "optional"
        THEN Parsed([h EXCEPT !.Auth = AuthOptional], FALSE)
        ELSE IF v = "none" THEN Parsed([h EXCEPT !.Auth = AuthNone], FALSE)
        ELSE Parsed(h, TRUE)

\* The period names parseRateLimit accepts, in seconds.
PeriodSeconds ==
    [p \in {"second", "sec", "s"} |-> 1]
    @@ [p \in {"minute", "min", "m"} |-> 60]
    @@ [p \in {"hour", "hr", "h"} |-> 3600]
    @@ [p \in {"day", "d"} |-> 86400]

\* parseDuration: a time.Duration from a number of seconds.
parseDuration(seconds) == seconds

parseRateLimit(h, value) ==
    LET parts == Split(value, "/", <<>>)
    IN  IF Len(parts) # 2 THEN Parsed(h, TRUE)
        ELSE LET count == ScanInt(parts[1])
                 period == Str(ToLower(TrimSpace(parts[2])))
             IN  IF ~count.ok THEN Parsed(h, TRUE)
                 ELSE IF period \notin DOMAIN PeriodSeconds
                 THEN Parsed(h, TRUE)
                 ELSE Parsed([h EXCEPT !.RateLimit =
                                 [set |-> TRUE, Count |-> count.val,
                                  Period |->
                                      parseDuration(PeriodSeconds[period])]],
                             FALSE)

OriginsPrefix == <<"o", "r", "i", "g", "i", "n", "s", "=">>

parseCORS(h, value) ==
    IF ~HasPrefix(value, OriginsPrefix) THEN Parsed(h, TRUE)
    ELSE LET originsStr == TrimPrefix(value, OriginsPrefix)
             list == Split(originsStr, ",", <<>>)
             origins == IF originsStr = <<"*">> THEN << <<"*">> >>
                        ELSE [i \in 1..Len(list) |-> TrimSpace(list[i])]
         IN  Parsed([h EXCEPT !.CORS =
                        [set |-> TRUE, AllowedOrigins |-> origins]], FALSE)

\* A unit table that takes every unit for seconds.
TimeoutMultiplierFlat ==
    [u \in {"s", "sec", "second", "m", "min", "minute", "h", "hr", "hour"}
        |-> 1]

\* The units parseTimeout accepts, in seconds.
TimeoutMultiplier ==
    [u \in {"s", "sec", "second"} |-> 1]
    @@ [u \in {"m", "min", "minute"} |-> 60]
    @@ [u \in {"h", "hr", "hour"} |-> 3600]

parseTimeout(h, value) ==
    LET num == ScanInt(value)
        unit == IF num.ok THEN ScanWord(num.rest)
                ELSE [ok |-> FALSE, val |-> <<>>]
    IN  IF ~num.ok \/ ~unit.ok THEN Parsed(h, TRUE)
        ELSE IF Str(unit.val) \notin DOMAIN TimeoutMultiplier
        THEN Parsed(h, TRUE)
        ELSE Parsed([h EXCEPT !.Timeout =
                        parseDuration(num.val
                                      * TimeoutMultiplier[Str(unit.val)])],
                    FALSE)

ServicePrefix == <<"s", "e", "r", "v", "i", "c", "e", "=">>

parseContainerService(h, value) ==
    IF ~HasPrefix(value, ServicePrefix) THEN Parsed(h, TRUE)
    ELSE LET name == TrimSpace(TrimPrefix(value, ServicePrefix))
         IN  IF name = <<>> THEN Parsed(h, TRUE)
             ELSE Parsed([h EXCEPT !.ServiceName = name], FALSE)

ParseError(funcName, message, line) ==
    [Decl |-> funcName, Message |-> message, Annotation |-> line]

\* One comment line of a doc comment after the comment markers are
\* stripped: box says whether it starts with "@box:", type is the
\* annotation type and value the text after it.
AnnotationLine(type, value) == [box |-> TRUE, type |-> type, value |-> value]

CommentLine == [box |-> FALSE, type |-> "", value |-> <<>>]

\* The Handler parseAnnotations starts from.
NewHandler(funcName, packageName) ==
    [FunctionName |-> funcName, PackageName |-> packageName,
     DeploymentType |-> "", ServiceName |-> <<>>,
     Route |-> [Method |-> "", Path |-> <<>>]] @@ Unset

\* The body of the loop of parseAnnotations for one annotation line: st is
\* the handler, the errors and hasBoxAnnotation before the line.
ScanLine(st, line, funcName) ==
    LET h == st.handler
        value == TrimSpace(line.value)
        Took(r, message) ==
            [handler |-> r.h,
             errors |-> IF r.failed
                        THEN Append(st.errors,
                                    ParseError(funcName, message, line))
                        ELSE st.errors,
             hasBoxAnnotation |-> TRUE]
    IN  IF ~line.box THEN st
        ELSE IF line.type = "function"
        THEN Took(Parsed([h EXCEPT !.DeploymentType = DeploymentFunction],
                         FALSE), "")
        ELSE IF line.type = "container"
        THEN LET c == [h EXCEPT !.DeploymentType = DeploymentContainer]
             IN  IF value # <<>>
                 THEN Took(parseContainerService(c, value),
                           "Invalid container annotation")
                 ELSE Took(Parsed(c, FALSE), "")
        ELSE IF line.type = "path"
        THEN Took(parsePath(h, value), "Invalid path annotation")
        ELSE IF line.type = "auth"
        THEN Took(parseAuth(h, value), "Invalid auth annotation")
        ELSE IF line.type = "ratelimit"
        THEN Took(parseRateLimit(h, value), "Invalid ratelimit annotation")
        ELSE IF line.type = "cors"
        THEN Took(parseCORS(h, value), "Invalid cors annotation")
        ELSE IF line.type = "timeout"
        THEN Took(parseTimeout(h, value), "Invalid timeout annotation")
        ELSE IF line.type = "memory"
        THEN Took(Parsed([h EXCEPT !.Memory = value], FALSE), "")
        ELSE IF line.type = "concurrency"
        THEN LET concurrency == ScanInt(value)
             IN  IF ~concurrency.ok
                 THEN Took(Parsed(h, TRUE), "Invalid concurrency value")
                 ELSE Took(Parsed([h EXCEPT !.Concurrency = concurrency.val],
                                  FALSE), "")
        ELSE Took(Parsed(h, TRUE), "Unknown annotation type")

\* parseAnnotations after the first n lines of the doc comment.
RECURSIVE ScanBlock(_, _, _, _)
ScanBlock(doc, n, funcName, packageName) ==
    IF n = 0
    THEN [handler |-> NewHandler(funcName, packageName), errors |-> <<>>,
          hasBoxAnnotation |-> FALSE]
    ELSE ScanLine(ScanBlock(doc, n - 1, funcName, packageName), doc[n],
                  funcName)

\* parseAnnotations: the handler (none when the block has no @box: line)
\* and the parse errors of one declaration.
parseAnnotations(doc, funcName, packageName) ==
    LET st == ScanBlock(doc, Len(doc), funcName, packageName)
    IN  [handlers |-> IF st.hasBoxAnnotation THEN <<st.handler>> ELSE <<>>,
         errors |-> st.errors]

FilePackage == <<"u">>

\* ParseFile over the top-level function declarations of one file.
RECURSIVE ParseFile(_)
ParseFile(decls) ==
    IF decls = <<>> THEN [Handlers |-> <<>>, Errors |-> <<>>]
    ELSE LET first == parseAnnotations(Head(decls).doc, Head(decls).name,
                                       FilePackage)
             others == ParseFile(Tail(decls))
         IN  [Handlers |-> first.handlers \o others.Handlers,
              Errors |-> first.errors \o others.Errors]

\* The parser and the Validator write no output: no build is configured.
InitNoOutput ==
    /\ NotServing
    /\ cleanBuildDir = FALSE
    /\ dirs = AbsentTree.dirs /\ files = AbsentTree.files /\ pre = AbsentTree
    /\ pc = "idle"
    /\ err = NoErr
    /\ status = [e \in {"functions", "containers", "gateway", "terraform"}
                   |-> "pending"]
    /\ written = {}
    /\ run = 0
    /\ out1 = NoTree
    /\ calls = <<>>
    /\ surfaced = <<>>
    /\ groups = <<>>

\* SpecParse: ParseFile on a Go file with two annotated declarations.

\* Annotation lines a block is put together from: well-formed ones, ones
\* with a malformed value or an unknown key, and an ordinary comment.
BlockLines ==
    { AnnotationLine("function", <<>>),
      AnnotationLine("container", <<>>),
      AnnotationLine("container", <<"s", "e", "r", "v", "i", "c", "e", "=", "c">>),
      AnnotationLine("path", <<"G", "E", "T", " ", "/", "u">>),
      AnnotationLine("path", <<"G", "E", "T">>),
      AnnotationLine("path", <<"g", "e", "t", " ", "/", "u">>),
      AnnotationLine("auth", <<"m", "a", "y", "b", "e">>),
      AnnotationLine("ratelimit", <<"1", "0", "/", "w", "e", "e", "k">>),
      AnnotationLine("timeout", <<"3", "0">>),
      AnnotationLine("memory", <<"l", "o", "t", "s">>),
      AnnotationLine("concurrency", <<"1", "2", "a", "b", "c">>),
      AnnotationLine("foo", <<>>),
      CommentLine }

ShortBlocks == UNION { [1..n -> BlockLines] : n \in 0..MaxLines }

\* What a complete annotation block declares.  Texts are character
\* sequences, numbers are numbers.
Declared ==
    [target : {"function", "container"},
     method : {<<"G", "E", "T">>, <<"P", "O", "S", "T">>},
     path : {PathU},
     auth : {<<"r", "e", "q", "u", "i", "r", "e", "d">>, <<"o", "p", "t", "i", "o", "n", "a", "l">>, <<"n", "o", "n", "e">>},
     origins : { <<<<"*">>>>, <<<<"a">>, <<"b">>>> },
     count : {5, 100},
     period : {<<"s", "e", "c", "o", "n", "d">>, <<"m", "i", "n", "u", "t", "e">>, <<"h", "o", "u", "r">>, <<"d", "a", "y">>},
     timeout : { [num |-> 30, unit |-> <<"s">>],
                 [num |-> 5, unit |-> <<"m">>],
                 [num |-> 1, unit |-> <<"h">>] },
     memory : { [num |-> 256, unit |-> <<"M", "B">>],
                [num |-> 1, unit |-> <<"G", "B">>] },
     concurrency : {1, 80}]

DigitChar == [d \in 0..9 |-> CHOOSE c \in DOMAIN DigitVal : DigitVal[c] = d]

\* The decimal text of a natural number.
RECURSIVE Digits(_)
Digits(n) ==
    IF n < 10 THEN <<DigitChar[n]>>
    ELSE Append(Digits(n \div 10), DigitChar[n % 10])

RECURSIVE JoinComma(_)
JoinComma(list) ==
    IF Len(list) = 1 THEN Head(list)
    ELSE Head(list) \o <<",">> \o JoinComma(Tail(list))

\* The annotation block that declares d, one annotation per comment line.
Render(d) ==
    << AnnotationLine(d.target, <<>>),
       AnnotationLine("path", d.method \o <<" ">> \o d.path),
       AnnotationLine("auth", d.auth),
       AnnotationLine("cors", OriginsPrefix \o JoinComma(d.origins)),
       AnnotationLine("ratelimit", Digits(d.count) \o <<"/">> \o d.period),
       AnnotationLine("timeout", Digits(d.timeout.num) \o d.timeout.unit),
       AnnotationLine("memory", Digits(d.memory.num) \o d.memory.unit),
       AnnotationLine("concurrency", Digits(d.concurrency)) >>

\* A function declaration of the file: its name, its doc comment and, for
\* a block rendered from a declaration, what the block declares.
FirstDecls ==
    { [name |-> <<"C">>, doc |-> b, declared |-> <<>>] : b \in ShortBlocks }
    \cup { [name |-> <<"C">>, doc |-> Render(d), declared |-> <<d>>] :
             d \in Declared }

LaterDecls ==
    { [name |-> <<"A", "B">>, doc |-> b, declared |-> <<>>] :
        b \in { <<>>,
                <<AnnotationLine("foo", <<>>)>>,
                <<AnnotationLine("function", <<>>),
                  AnnotationLine("path", <<"G", "E", "T", " ", "/", "u">>)>> } }

\* parser.ParseFile(path): the handlers and the parse errors of the file.
ParseGoFile ==
    /\ pc = "idle"
    /\ handlers' = ParseFile(source).Handlers
    /\ surfaced' = ParseFile(source).Errors
    /\ calls' = Append(calls, "parser")
    /\ pc' = "parsed"
    /\ UNCHANGED <<serving, handlers0, cleanBuildDir, dirs, files, err, status,
                   written, pre, run, out1, prog, ppc, source, groups>>

InitParse ==
    /\ prog = "api" /\ ppc = "none"
    /\ \E d1 \in FirstDecls : \E d2 \in LaterDecls : source = <<d1, d2>>
    /\ handlers = <<>>
    /\ handlers0 = <<>>
    /\ InitNoOutput

NextParse == ParseGoFile

SpecParse == InitParse /\ [][NextParse]_vars

\* SpecValidate: a program calls Validate or ValidateUniquePaths on a
\* handler list.

\* A function handler C of package u on GET /u with nothing else set.
BaseHandler ==
    [FunctionName |-> <<"C">>, PackageName |-> <<"u">>,
     DeploymentType |-> DeploymentFunction, ServiceName |-> <<>>,
     Route |-> [Method |-> "GET", Path |-> PathU]] @@ Unset

Targets == {DeploymentFunction, DeploymentContainer, ""}

\* Route paths: well-formed ones and ones that break a path rule.
ValPaths ==
    { <<>>, <<"/">>, <<"/", "u">>, <<"u">>, <<"/", "u", "/">>, <<"/", "{", "a", "}">>, <<"/", "{", "}">>, <<"/", "{", "a">>,
      <<"/", "a", "}">>, <<"/", "u", "{", "a", "}">>, <<"/", "a", "}", "/", "{", "{", "b", "}">>, <<"/", "{", "a", "}", "/", "u", "/", "{", "b", "}">> }

ValTimeouts == {0 - 1, 4, 5, 540, 541, 600, 3600, 3601}

ValConcurrency == {0 - 1, 1, 1000, 1001}

ValRateLimits ==
    { [set |-> TRUE, Count |-> 0, Period |-> 60],
      [set |-> TRUE, Count |-> 20000, Period |-> 60],
      [set |-> TRUE, Count |-> 5, Period |-> 3600],
      [set |-> TRUE, Count |-> 100, Period |-> 3600] }

ValCORS ==
    { [set |-> TRUE, AllowedOrigins |-> <<>>],
      [set |-> TRUE, AllowedOrigins |-> << <<"*">> >>],
      [set |-> TRUE, AllowedOrigins |-> << HTTPS \o <<"a">>, <<"a">> >>] }

\* Handlers that differ from BaseHandler in one annotation (and, where the
\* rule depends on it, the deployment target), and two handlers that break
\* several rules at once.
ValHandlers ==
    { [BaseHandler EXCEPT !.DeploymentType = t] : t \in Targets }
    \cup { [BaseHandler EXCEPT !.Route = [Method |-> "GET", Path |-> p]] :
             p \in ValPaths }
    \cup { [BaseHandler EXCEPT !.Route = [Method |-> "", Path |-> <<>>]] }
    \cup { [BaseHandler EXCEPT !.DeploymentType = t, !.Timeout = n] :
             t \in Targets, n \in ValTimeouts }
    \cup { [BaseHandler EXCEPT !.DeploymentType = t, !.Concurrency = n] :
             t \in {DeploymentFunction, DeploymentContainer},
             n \in ValConcurrency }
    \cup { [BaseHandler EXCEPT !.DeploymentType = t, !.Memory = m] :
             t \in {DeploymentFunction, DeploymentContainer},
             m \in { <<"2", "5", "6", "M", "B">>,
                     <<"9", "9", "M", "B">> } }
    \cup { [BaseHandler EXCEPT !.RateLimit = r] : r \in ValRateLimits }
    \cup { [BaseHandler EXCEPT !.CORS = c] : c \in ValCORS }
    \cup { [BaseHandler EXCEPT !.DeploymentType = "",
                               !.Route = [Method |-> "GET", Path |-> <<"u", "/">>],
                               !.Timeout = 4],
           [BaseHandler EXCEPT !.Concurrency = 5,
                               !.Memory = <<"9", "9", "M", "B">>,
                               !.Timeout = 600,
                               !.CORS = [set |-> TRUE,
                                         AllowedOrigins |-> <<>>]] }

\* Handlers that differ in name and route only, for the uniqueness pass.
RouteHandlers ==
    { [BaseHandler EXCEPT !.FunctionName = f,
                          !.Route = [Method |-> m, Path |-> PathU]] :
        f \in FunctionNames, m \in {"GET", "POST"} }

ValidatorInputs ==
    UNION { [1..n -> ValHandlers] : n \in 0..MaxValidated }
    \cup UNION { [1..n -> RouteHandlers] : n \in 0..(MaxValidated + 1) }

\* validator.Validate(handlers)
CallValidate ==
    /\ pc = "idle"
    /\ surfaced' = Validate(handlers)
    /\ calls' = Append(calls, "validator")
    /\ pc' = "validated"
    /\ UNCHANGED <<serving, handlers, handlers0, cleanBuildDir, dirs, files, err,
                   status, written, pre, run, out1, prog, ppc, source,
                   groups>>

\* validator.ValidateUniquePaths(handlers)
CallValidateUniquePaths ==
    /\ pc = "idle"
    /\ surfaced' = ValidateUniquePaths(handlers)
    /\ calls' = Append(calls, "validator")
    /\ pc' = "unique"
    /\ UNCHANGED <<serving, handlers, handlers0, cleanBuildDir, dirs, files, err,
                   status, written, pre, run, out1, prog, ppc, source,
                   groups>>

InitValidate ==
    /\ prog = "api" /\ ppc = "none"
    /\ source = <<>>
    /\ handlers \in ValidatorInputs
    /\ handlers0 = handlers
    /\ InitNoOutput

NextValidate == CallValidate \/ CallValidateUniquePaths

SpecValidate == InitValidate /\ [][NextValidate]_vars

----------------------------------------------------------------------------
(* SpecEmit: one emitter called on its own, through GenerateFunctions or   *)
(* GenerateGateway, on handlers that carry auth, rate limit, memory and    *)
(* timeout settings.                                                        *)

\* Handlers on /u that differ in what the Gateway Emitter looks at.
GatewayHandlers ==
    { [BaseHandler EXCEPT !.Auth = a,
                          !.Route = [Method |-> m, Path |-> PathU],
                          !.RateLimit = r] :
        a \in {AuthNone, AuthOptional, AuthRequired},
        m \in {"GET", "POST"},
        r \in {NilRateLimit, [set |-> TRUE, Count |-> 5, Period |-> 60]} }

\* Function handlers that differ in what the platform manifest records.
ManifestHandlers ==
    { [BaseHandler EXCEPT !.FunctionName = f, !.Memory = m, !.Timeout = t,
                          !.Route = [Method |-> "GET", Path |-> PathHealth]] :
        f \in FunctionNames,
        m \in { <<>>, <<"5", "1", "2", "M", "B">>, <<"1", "G", "B">> },
        t \in {0, 30} }

EmitHandlers ==
    GatewayHandlers \cup ManifestHandlers
    \cup { [BaseHandler EXCEPT !.DeploymentType = DeploymentContainer,
                               !.Auth = AuthOptional,
                               !.Route = [Method |-> "GET",
                                          Path |-> PathHealth]] }

\* One emitter's Generate, called directly on the Generator: its operations
\* ops run in order on the output tree until one fails.
CallEmitter(e, ops) ==
    /\ pc = "idle"
    /\ \E trees \in {ApplyOps(Tree, ops, Len(ops))} :
          LET last == trees[Len(ops) + 1]
          IN  /\ dirs' = last.tree.dirs
              /\ files' = last.tree.files
              /\ written' = Created(Tree, last.tree, ops, Len(ops), e)
              /\ status' = [status EXCEPT
                               ![e] = IF last.ok THEN "ok" ELSE "failed"]
    /\ pc' = e
    /\ UNCHANGED <<serving, handlers, handlers0, cleanBuildDir, err, pre, run, out1,
                   prog, ppc, source, calls, surfaced, groups>>

\* g.funcGenerator.Generate()
GenerateFunctions ==
    CallEmitter("functions",
                FunctionGenerate(filterFunctionHandlers(handlers)))

\* g.gatewayGenerator.Generate()
GenerateGateway == CallEmitter("gateway", GatewayGenerate(handlers))

InitEmit ==
    /\ prog = "api" /\ ppc = "none"
    /\ source = <<>>
    /\ handlers \in UNION { [1..n -> EmitHandlers] : n \in 0..MaxHandlers }
    /\ handlers0 = handlers
    /\ InitNoOutput

NextEmit == GenerateFunctions \/ GenerateGateway

SpecEmit == InitEmit /\ [][NextEmit]_vars

----------------------------------------------------------------------------
(* SpecKebab: toKebabCase called repeatedly on one symbol name.            *)

CreateAccount ==
    <<"C", "r", "e", "a", "t", "e", "A", "c", "c", "o", "u", "n", "t">>

HTTPHandler == <<"H", "T", "T", "P", "H", "a", "n", "d", "l", "e", "r">>

\* Symbol names: every name of up to MaxName letters over two uppercase
\* and two lowercase letters, and the two names of the casing test.
SymbolNames ==
    UNION { [1..n -> {"A", "c", "H", "t"}] : n \in 0..MaxName }
    \cup {CreateAccount, HTTPHandler}

\* One more call of toKebabCase on the name; its result is kept.
CallToKebabCase ==
    /\ pc = "idle"
    /\ Len(surfaced) < MaxRuns
    /\ surfaced' = Append(surfaced, toKebabCase(source))
    /\ UNCHANGED <<serving, handlers, handlers0, cleanBuildDir, dirs, files, pc, err,
                   status, written, pre, run, out1, prog, ppc, source, calls,
                   groups>>

InitKebab ==
    /\ prog = "api" /\ ppc = "none"
    /\ source \in SymbolNames
    /\ handlers = <<>> /\ handlers0 = <<>>
    /\ InitNoOutput

NextKebab == CallToKebabCase

SpecKebab == InitKebab /\ [][NextKebab]_vars

----------------------------------------------------------------------------
(* SpecInfra: Generators built for different projects and environments on  *)
(* the same handlers and output directory, each running the Infrastructure *)
(* Emitter through GenerateTerraform.                                      *)

\* What a caller may put in Config.ProjectID and Config.Environment.
Config ==
    [ProjectID : {"", "test-project"},
     Environment : {"", "staging", "production"}]

\* NewGenerator: the settings the TerraformGenerator is built with, an
\* empty project id and environment replaced by their defaults.
NewGenerator(config) ==
    [projectID |-> IF config.ProjectID = "" THEN "PROJECT_ID"
                   ELSE config.ProjectID,
     environment |-> IF config.Environment = "" THEN "dev"
                     ELSE config.Environment]

InfraHandlers ==
    { [BaseHandler EXCEPT !.DeploymentType = t, !.PackageName = p] :
        t \in {DeploymentFunction, DeploymentContainer},
        p \in {<<"u">>, <<>>} }

\* build.NewGenerator(config) on the handlers and the output directory.
CallNewGenerator ==
    /\ pc \in {"idle", "returned"}
    /\ run < MaxRuns
    /\ \E config \in Config : source' = NewGenerator(config)
    /\ pc' = "constructed"
    /\ UNCHANGED <<serving, handlers, handlers0, cleanBuildDir, dirs, files, err,
                   status, written, pre, run, out1, prog, ppc, calls,
                   surfaced, groups>>

\* g.terraformGenerator.Generate() on the Generator just built.
GenerateTerraform ==
    /\ pc = "constructed"
    /\ \E ops \in {TerraformGenerate(handlers)} :
       \E trees \in {ApplyOps(Tree, ops, Len(ops))} :
          LET last == trees[Len(ops) + 1]
          IN  /\ dirs' = last.tree.dirs
              /\ files' = last.tree.files
              /\ written' = Created(Tree, last.tree, ops, Len(ops),
                                    "terraform")
              /\ status' = [status EXCEPT
                    !["terraform"] = IF last.ok THEN "ok" ELSE "failed"]
              /\ out1' = IF out1 = NoTree /\ last.ok
                         THEN Snapshot(last.tree.dirs, last.tree.files)
                         ELSE out1
    /\ pre' = Tree
    /\ run' = run + 1
    /\ calls' = Append(calls, source)
    /\ pc' = "returned"
    /\ UNCHANGED <<serving, handlers, handlers0, cleanBuildDir, err, prog, ppc,
                   source, surfaced, groups>>

InitInfra ==
    /\ prog = "api" /\ ppc = "none"
    /\ source = NewGenerator([ProjectID |-> "", Environment |-> ""])
    /\ handlers \in UNION { [1..n -> InfraHandlers] : n \in 0..MaxHandlers }
    /\ handlers0 = handlers
    /\ InitNoOutput

NextInfra == CallNewGenerator \/ GenerateTerraform

SpecInfra == InitInfra /\ [][NextInfra]_vars

----------------------------------------------------------------------------
(* SpecScan: ParseDirectory of the Go-source parser and of the             *)
(* TypeScript-source parser on a handlers directory.                       *)

\* The files a handlers directory may hold, in the order filepath.Walk
\* visits them: dir is the subdirectory (none for the root), name the file
\* name.  Every file declares one handler and has one malformed block.
ScanFiles ==
    << [dir |-> <<".", "g", "i", "t">>, name |-> <<"a", ".", "d", ".", "t", "s">>],
       [dir |-> <<".", "g", "i", "t">>, name |-> <<"a", ".", "g", "o">>],
       [dir |-> <<".", "g", "i", "t">>, name |-> <<"a", ".", "j", "s">>],
       [dir |-> <<".", "g", "i", "t">>, name |-> <<"a", ".", "t", "e", "s", "t", ".", "t", "s">>],
       [dir |-> <<".", "g", "i", "t">>, name |-> <<"a", ".", "t", "s">>],
       [dir |-> <<".", "g", "i", "t">>, name |-> <<"a", "_", "t", "e", "s", "t", ".", "g", "o">>],
       [dir |-> <<>>, name |-> <<"a", ".", "d", ".", "t", "s">>],
       [dir |-> <<>>, name |-> <<"a", ".", "g", "o">>],
       [dir |-> <<>>, name |-> <<"a", ".", "j", "s">>],
       [dir |-> <<>>, name |-> <<"a", ".", "t", "e", "s", "t", ".", "t", "s">>],
       [dir |-> <<>>, name |-> <<"a", ".", "t", "s">>],
       [dir |-> <<>>, name |-> <<"a", "_", "t", "e", "s", "t", ".", "g", "o">>],
       [dir |-> <<"a", "p", "i">>, name |-> <<"a", ".", "d", ".", "t", "s">>],
       [dir |-> <<"a", "p", "i">>, name |-> <<"a", ".", "g", "o">>],
       [dir |-> <<"a", "p", "i">>, name |-> <<"a", ".", "j", "s">>],
       [dir |-> <<"a", "p", "i">>, name |-> <<"a", ".", "t", "e", "s", "t", ".", "t", "s">>],
       [dir |-> <<"a", "p", "i">>, name |-> <<"a", ".", "t", "s">>],
       [dir |-> <<"a", "p", "i">>, name |-> <<"a", "_", "t", "e", "s", "t", ".", "g", "o">>],
       [dir |-> <<"n", "o", "d", "e", "_", "m", "o", "d", "u", "l", "e", "s">>, name |-> <<"a", ".", "d", ".", "t", "s">>],
       [dir |-> <<"n", "o", "d", "e", "_", "m", "o", "d", "u", "l", "e", "s">>, name |-> <<"a", ".", "g", "o">>],
       [dir |-> <<"n", "o", "d", "e", "_", "m", "o", "d", "u", "l", "e", "s">>, name |-> <<"a", ".", "j", "s">>],
       [dir |-> <<"n", "o", "d", "e", "_", "m", "o", "d", "u", "l", "e", "s">>, name |-> <<"a", ".", "t", "e", "s", "t", ".", "t", "s">>],
       [dir |-> <<"n", "o", "d", "e", "_", "m", "o", "d", "u", "l", "e", "s">>, name |-> <<"a", ".", "t", "s">>],
       [dir |-> <<"n", "o", "d", "e", "_", "m", "o", "d", "u", "l", "e", "s">>, name |-> <<"a", "_", "t", "e", "s", "t", ".", "g", "o">>],
       [dir |-> <<"v", "e", "n", "d", "o", "r">>, name |-> <<"a", ".", "d", ".", "t", "s">>],
       [dir |-> <<"v", "e", "n", "d", "o", "r">>, name |-> <<"a", ".", "g", "o">>],
       [dir |-> <<"v", "e", "n", "d", "o", "r">>, name |-> <<"a", ".", "j", "s">>],
       [dir |-> <<"v", "e", "n", "d", "o", "r">>, name |-> <<"a", ".", "t", "e", "s", "t", ".", "t", "s">>],
       [dir |-> <<"v", "e", "n", "d", "o", "r">>, name |-> <<"a", ".", "t", "s">>],
       [dir |-> <<"v", "e", "n", "d", "o", "r">>, name |-> <<"a", "_", "t", "e", "s", "t", ".", "g", "o">>] >>

\* The directory argument of ParseDirectory.
ScanRoots == { <<"h", "a", "n", "d", "l", "e", "r", "s">>, <<".">> }

\* The path filepath.Walk hands to the callback for a file.
WalkPath(root, f) ==
    root \o <<"/">> \o (IF f.dir = <<>> THEN <<>> ELSE f.dir \o <<"/">>)
    \o f.name

\* The callback of the Go parser: whether the file is handed to ParseFile.
GoParses(root, f) ==
    /\ HasSuffix(WalkPath(root, f), <<".", "g", "o">>)
    /\ ~HasSuffix(WalkPath(root, f), <<"_", "t", "e", "s", "t", ".", "g", "o">>)

\* The callback of the TypeScript parser on a directory: SkipDir.
TsSkipDir(name) ==
    name = <<"n", "o", "d", "e", "_", "m", "o", "d", "u", "l", "e", "s">> \/ HasPrefix(name, <<".">>)

\* The callback of the TypeScript parser: whether the file is reached and
\* handed to ParseFile.
TsParses(root, f) ==
    /\ ~TsSkipDir(root)
    /\ f.dir # <<>> => ~TsSkipDir(f.dir)
    /\ \/ HasSuffix(WalkPath(root, f), <<".", "t", "s">>)
       \/ HasSuffix(WalkPath(root, f), <<".", "j", "s">>)
    /\ ~HasSuffix(WalkPath(root, f), <<".", "t", "e", "s", "t", ".", "t", "s">>)
    /\ ~HasSuffix(WalkPath(root, f), <<".", "t", "e", "s", "t", ".", "j", "s">>)
    /\ ~HasSuffix(WalkPath(root, f), <<".", "d", ".", "t", "s">>)

\* The walk over the first n files of ScanFiles: the paths of the files of
\* present that the parser lang hands to ParseFile, in walk order.
RECURSIVE WalkFiles(_, _, _, _)
WalkFiles(lang, root, present, n) ==
    IF n = 0 THEN <<>>
    ELSE WalkFiles(lang, root, present, n - 1)
         \o (IF n \in present
                /\ (IF lang = "go" THEN GoParses(root, ScanFiles[n])
                    ELSE TsParses(root, ScanFiles[n]))
             THEN <<WalkPath(root, ScanFiles[n])>> ELSE <<>>)

\* ParseDirectory: the results of ParseFile merged in walk order, one
\* Handler and one ParseError per parsed file.
ScanDirectory(lang) ==
    /\ pc = "idle"
    /\ \E parsed \in {WalkFiles(lang, source.root, source.present,
                                Len(ScanFiles))} :
          /\ handlers' = [i \in 1..Len(parsed) |-> [FilePath |-> parsed[i]]]
          /\ surfaced' = [i \in 1..Len(parsed) |->
                             [FilePath |-> parsed[i],
                              Message |-> "Unknown annotation type"]]
    /\ pc' = lang
    /\ UNCHANGED <<serving, handlers0, cleanBuildDir, dirs, files, err, status,
                   written, pre, run, out1, prog, ppc, source, calls,
                   groups>>

\* annotations.NewParser().ParseDirectory(dir)
GoParseDirectory == ScanDirectory("go")

\* typescript.NewParser().ParseDirectory(dir)
TsParseDirectory == ScanDirectory("ts")

\* The sets of at most n of the files of ScanFiles.
RECURSIVE FileSets(_)
FileSets(n) ==
    IF n = 0 THEN {{}}
    ELSE LET smaller == FileSets(n - 1)
         IN  smaller \cup { S \cup {f} : S \in smaller,
                                          f \in 1..Len(ScanFiles) }

InitScan ==
    /\ prog = "build" /\ ppc = "none"
    /\ source \in [root : ScanRoots, present : FileSets(MaxFiles)]
    /\ handlers = <<>> /\ handlers0 = <<>>
    /\ InitNoOutput

NextScan == GoParseDirectory \/ TsParseDirectory

SpecScan == InitScan /\ [][NextScan]_vars

----------------------------------------------------------------------------
(* The router: the middleware chain of one registered handler.             *)

MaxRequests == 3
MaxTime == 3
MaxLimit == 2
MaxWindow == 2

\* r.RemoteAddr of the clients.
RemoteAddrs == {"a", "b"}

\* Authorization headers: none, a bearer token, another scheme, a bare word.
NoHeader == <<>>
BearerToken == <<"B", "e", "a", "r", "e", "r", " ", "t">>
BasicToken == <<"B", "a", "s", "i", "c", " ", "t">>
BareBearer == <<"B", "e", "a", "r", "e", "r">>
AuthHeaders == {NoHeader, BearerToken, BasicToken, BareBearer}

StatusOK == 200
StatusUnauthorized == 401
StatusTooManyRequests == 429
StatusGatewayTimeout == 504

\* The handler the router has registered.
Registered == handlers[1]

\* buildMiddlewareChain and applyMiddleware: the stages a request passes, the
\* first middleware outermost, the handler function innermost.  Handlers
\* without a CORS policy are modelled.
buildMiddlewareChain(h) ==
    (IF h.Auth # AuthNone THEN <<"auth">> ELSE <<>>)
    \o (IF h.RateLimit.set THEN <<"limit">> ELSE <<>>)
    \o (IF h.Timeout > 0 THEN <<"timeout">> ELSE <<>>)

applyMiddleware(h) == buildMiddlewareChain(h) \o <<"handler">>

\* next.ServeHTTP of a stage: the stage that follows it in the chain.
NextStage(h, stage) ==
    LET chain == applyMiddleware(h)
        k == CHOOSE j \in 1..Len(chain) : chain[j] = stage
    IN  chain[k + 1]

\* A request the router has accepted and not yet passed to any stage.
NewRequest(key, header, first) ==
    [key |-> key, header |-> header, pc |-> first, trace |-> <<>>,
     at |-> 0, turn |-> 0, allowed |-> FALSE, remaining |-> 0,
     resetTime |-> 0, retryAfter |-> <<>>, writes |-> <<>>,
     hpc |-> "none", done |-> FALSE, expired |-> FALSE]

\* http.Error and w.Write: one more write to the request's response.
WriteResponse(r, by, code) ==
    [r EXCEPT !.writes = Append(@, [by |-> by, status |-> code])]

\* AuthMiddleware, the required mode answering only a missing header.
AuthRejectsMissing(type, authHeader) ==
    type = AuthRequired /\ authHeader = <<>>

\* AuthMiddleware: the requests it answers with 401 itself.
AuthRejects(type, authHeader) ==
    /\ type = AuthRequired
    /\ \/ authHeader = <<>>
       \/ Len(authHeader) < 7
       \/ SubSeq(authHeader, 1, 7) # <<"B", "e", "a", "r", "e", "r", " ">>

\* The registered handler function, called by the last middleware.
HandlerFunc(r) ==
    [WriteResponse(r, "handler", StatusOK)
       EXCEPT !.trace = Append(@, "handler"), !.pc = "done"]

\* ServeHTTP of a stage, as far as the request's goroutine runs without
\* waiting: AuthMiddleware answers or calls the next stage, the handler
\* function runs to its end, RateLimitMiddleware waits for the limiter's
\* lock and TimeoutMiddleware starts the goroutine of the next stage.
RECURSIVE ServeHTTP(_, _, _)
ServeHTTP(h, r, stage) ==
    CASE stage = "auth" ->
           IF AuthRejects(h.Auth, r.header)
           THEN [WriteResponse(r, "auth", StatusUnauthorized)
                   EXCEPT !.trace = Append(@, "auth"), !.pc = "done"]
           ELSE ServeHTTP(h, [r EXCEPT !.trace = Append(@, "auth")],
                          NextStage(h, "auth"))
      [] stage = "limit" -> [r EXCEPT !.pc = "limit"]
      [] stage = "timeout" ->
           [r EXCEPT !.trace = Append(@, "timeout"), !.pc = "select",
                     !.hpc = "running"]
      [] OTHER -> HandlerFunc(r)

\* The router accepts a request of one of its clients and serves it.
Serve ==
    /\ Len(requests) < MaxRequests
    /\ \E c \in source :
          requests' = Append(requests,
                             ServeHTTP(Registered,
                                       NewRequest(c.key, c.header, "new"),
                                       applyMiddleware(Registered)[1]))
    /\ UNCHANGED <<handlers, handlers0, cleanBuildDir, dirs, files, pc, err,
                   status, written, pre, run, out1, prog, ppc, source, calls,
                   surfaced, groups, now, buckets, mu>>

\* NewInMemoryRateLimiter: no bucket for any key.
NoBucket == [exists |-> FALSE, count |-> 0, resetTime |-> 0]

NewInMemoryRateLimiter == [k \in RemoteAddrs |-> NoBucket]

\* Allow, letting a request through while the count has reached the limit.
UnderOrAtLimit(b, limit) == b.count <= limit

\* Allow: b.count < l.limit.
UnderLimit(b, limit) == b.count < limit

\* InMemoryRateLimiter.Allow between Lock and Unlock, at time t.
Allow(bs, limit, window, key, t) ==
    LET old == bs[key]
        b == IF ~old.exists \/ t > old.resetTime
             THEN [exists |-> TRUE, count |-> 0, resetTime |-> t + window]
             ELSE old
    IN  IF UnderLimit(b, limit)
        THEN [allowed |-> TRUE, remaining |-> limit - (b.count + 1),
              resetTime |-> b.resetTime,
              buckets |-> [bs EXCEPT ![key] =
                              [b EXCEPT !.count = b.count + 1]]]
        ELSE [allowed |-> FALSE, remaining |-> 0,
              resetTime |-> b.resetTime,
              buckets |-> [bs EXCEPT ![key] = b]]

\* RateLimitMiddleware calls Allow: l.mu.Lock().
AllowLock(i) ==
    /\ requests[i].pc = "limit"
    /\ mu = 0
    /\ mu' = i
    /\ requests' = [requests EXCEPT ![i].pc = "allow",
                                    ![i].trace = Append(@, "limit")]
    /\ UNCHANGED <<handlers, handlers0, cleanBuildDir, dirs, files, pc, err,
                   status, written, pre, run, out1, prog, ppc, source, calls,
                   surfaced, groups, now, buckets>>

\* Allow runs and returns with the deferred l.mu.Unlock(); the rest of
\* RateLimitMiddleware sets the headers and answers 429 or calls the next
\* stage.
AllowReturn(i) ==
    /\ requests[i].pc = "allow"
    /\ mu = i
    /\ LET res == Allow(buckets, Registered.RateLimit.Count,
                        Registered.RateLimit.Period, requests[i].key, now)
           turns == Cardinality({j \in 1..Len(requests) :
                                    requests[j].turn > 0})
           r == [requests[i] EXCEPT !.at = now,
                                    !.turn = turns + 1,
                                    !.allowed = res.allowed,
                                    !.remaining = res.remaining,
                                    !.resetTime = res.resetTime]
       IN  /\ buckets' = res.buckets
           /\ requests' =
                 [requests EXCEPT ![i] =
                    IF ~res.allowed
                    THEN [WriteResponse(r, "limit", StatusTooManyRequests)
                            EXCEPT !.retryAfter = <<res.resetTime - now>>,
                                   !.pc = "done"]
                    ELSE ServeHTTP(Registered, r,
                                   NextStage(Registered, "limit"))]
    /\ mu' = 0
    /\ UNCHANGED <<handlers, handlers0, cleanBuildDir, dirs, files, pc, err,
                   status, written, pre, run, out1, prog, ppc, source, calls,
                   surfaced, groups, now>>

\* time.Now() advances.
Tick ==
    /\ now < MaxTime
    /\ now' = now + 1
    /\ UNCHANGED <<handlers, handlers0, cleanBuildDir, dirs, files, pc, err,
                   status, written, pre, run, out1, prog, ppc, source, calls,
                   surfaced, groups, buckets, mu, requests>>

\* InMemoryRateLimiter.cleanup on a tick of its ticker, under the lock.
cleanup ==
    /\ mu = 0
    /\ \E k \in RemoteAddrs : buckets[k].exists /\ now > buckets[k].resetTime
    /\ buckets' = [k \in RemoteAddrs |->
                     IF buckets[k].exists /\ now > buckets[k].resetTime
                     THEN NoBucket ELSE buckets[k]]
    /\ UNCHANGED <<handlers, handlers0, cleanBuildDir, dirs, files, pc, err,
                   status, written, pre, run, out1, prog, ppc, source, calls,
                   surfaced, groups, now, mu, requests>>

\* A router that has registered one handler and serves the clients.
InitServing(hs, clients) ==
    /\ prog = "api" /\ ppc = "none"
    /\ handlers \in hs
    /\ handlers0 = handlers
    /\ source = clients
    /\ cleanBuildDir = FALSE
    /\ dirs = AbsentTree.dirs /\ files = AbsentTree.files /\ pre = AbsentTree
    /\ pc = "idle"
    /\ err = NoErr
    /\ status = [e \in {"functions", "containers", "gateway", "terraform"}
                   |-> "pending"]
    /\ written = {}
    /\ run = 0
    /\ out1 = NoTree
    /\ calls = <<>>
    /\ surfaced = <<>>
    /\ groups = <<>>
    /\ now = 0
    /\ buckets = NewInMemoryRateLimiter
    /\ mu = 0
    /\ requests = <<>>

\* SpecLimiter: concurrent requests to a handler with a rate limit.
LimitedHandlers ==
    { <<[Auth |-> AuthNone,
         RateLimit |-> [set |-> TRUE, Count |-> c, Period |-> p],
         Timeout |-> 0]>> : c \in 1..MaxLimit, p \in 1..MaxWindow }

InitLimiter ==
    InitServing(LimitedHandlers,
                { [key |-> k, header |-> NoHeader] : k \in RemoteAddrs })

NextLimiter ==
    \/ Serve
    \/ \E i \in 1..Len(requests) : AllowLock(i)
    \/ \E i \in 1..Len(requests) : AllowReturn(i)
    \/ Tick
    \/ cleanup

SpecLimiter == InitLimiter /\ [][NextLimiter]_vars

\* SpecAuth: requests with and without a token to a handler of every auth
\* mode, with and without a rate limit.
AuthHandlers ==
    { <<[Auth |-> a, RateLimit |-> l, Timeout |-> 0]>> :
        a \in {AuthNone, AuthOptional, AuthRequired},
        l \in {NilRateLimit, [set |-> TRUE, Count |-> 1, Period |-> 1]} }

InitAuth ==
    InitServing(AuthHandlers,
                { [key |-> "a", header |-> h] : h \in AuthHeaders })

NextAuth ==
    \/ Serve
    \/ \E i \in 1..Len(requests) : AllowLock(i)
    \/ \E i \in 1..Len(requests) : AllowReturn(i)

SpecAuth == InitAuth /\ [][NextAuth]_vars

\* TimeoutMiddleware's goroutine: the handler function writes its response
\* to the ResponseWriter it shares with the middleware.
HandlerWrite(i) ==
    /\ requests[i].hpc = "running"
    /\ requests' =
         [requests EXCEPT ![i] =
            [WriteResponse(requests[i], "handler", StatusOK)
               EXCEPT !.trace = Append(@, "handler"), !.hpc = "wrote"]]
    /\ UNCHANGED <<handlers, handlers0, cleanBuildDir, dirs, files, pc, err,
                   status, written, pre, run, out1, prog, ppc, source, calls,
                   surfaced, groups, now, buckets, mu>>

\* TimeoutMiddleware's goroutine: next.ServeHTTP returns, close(done).
HandlerReturn(i) ==
    /\ requests[i].hpc = "wrote"
    /\ requests' = [requests EXCEPT ![i].hpc = "returned",
                                    ![i].done = TRUE]
    /\ UNCHANGED <<handlers, handlers0, cleanBuildDir, dirs, files, pc, err,
                   status, written, pre, run, out1, prog, ppc, source, calls,
                   surfaced, groups, now, buckets, mu>>

\* The deadline of context.WithTimeout passes: ctx.Done() is closed.
Deadline(i) ==
    /\ requests[i].pc = "select"
    /\ ~requests[i].expired
    /\ requests' = [requests EXCEPT ![i].expired = TRUE]
    /\ UNCHANGED <<handlers, handlers0, cleanBuildDir, dirs, files, pc, err,
                   status, written, pre, run, out1, prog, ppc, source, calls,
                   surfaced, groups, now, buckets, mu>>

\* TimeoutMiddleware's select takes <-done and returns.
SelectDone(i) ==
    /\ requests[i].pc = "select"
    /\ requests[i].done
    /\ requests' = [requests EXCEPT ![i].pc = "done"]
    /\ UNCHANGED <<handlers, handlers0, cleanBuildDir, dirs, files, pc, err,
                   status, written, pre, run, out1, prog, ppc, source, calls,
                   surfaced, groups, now, buckets, mu>>

\* TimeoutMiddleware's select takes <-ctx.Done() and answers 504.
SelectTimeout(i) ==
    /\ requests[i].pc = "select"
    /\ requests[i].expired
    /\ requests' =
         [requests EXCEPT ![i] =
            [WriteResponse(requests[i], "timeout", StatusGatewayTimeout)
               EXCEPT !.pc = "done"]]
    /\ UNCHANGED <<handlers, handlers0, cleanBuildDir, dirs, files, pc, err,
                   status, written, pre, run, out1, prog, ppc, source, calls,
                   surfaced, groups, now, buckets, mu>>

\* SpecTimeout: requests to a handler with a timeout.
TimedHandlers == { <<[Auth |-> AuthNone, RateLimit |-> NilRateLimit,
                      Timeout |-> 1]>> }

InitTimeout ==
    InitServing(TimedHandlers, { [key |-> "a", header |-> NoHeader] })

NextTimeout ==
    \/ Serve
    \/ \E i \in 1..Len(requests) : HandlerWrite(i)
    \/ \E i \in 1..Len(requests) : HandlerReturn(i)
    \/ \E i \in 1..Len(requests) : Deadline(i)
    \/ \E i \in 1..Len(requests) : SelectDone(i)
    \/ \E i \in 1..Len(requests) : SelectTimeout(i)

SpecTimeout == InitTimeout /\ [][NextTimeout]_vars

----------------------------------------------------------------------------
(* Properties of Generator.Generate.                                       *)

EmitterAt == <<"functions", "containers", "gateway", "terraform">>

StageName ==
    ("functions" :> "cloud functions") @@
    ("containers" :> "cloud run containers") @@
    ("gateway" :> "API Gateway configuration") @@
    ("terraform" :> "Terraform infrastructure")

\* C1: when an emitter fails, Generate has returned (it is not running any
\* more) with an error that names the stage of that emitter, no emitter
\* later in the order has run, and everything this call created, by the
\* earlier emitters and by the failing one, is still in the output tree.
C1_FailFast ==
    \A i \in 1..4 :
        status[EmitterAt[i]] = "failed" =>
            /\ pc = "done"
            /\ err.stage = StageName[EmitterAt[i]]
            /\ \A j \in 1..4 : j > i => status[EmitterAt[j]] = "pending"
            /\ \A w \in written : w.path \in dirs \cup DOMAIN files

\* An emitter failed after an earlier emitter and the failing emitter
\* itself had written files.
C1_Witness ==
    /\ status["functions"] = "ok"
    /\ status["containers"] = "failed"
    /\ \E w \in written : w.by = "functions" /\ w.path \in DOMAIN files
    /\ \E w \in written : w.by = "containers" /\ w.path \in DOMAIN files
    /\ err.stage = "cloud run containers"

\* C2: in every run of Generate the output root exists from the moment the
\* first emitter stage is reached, and an emitter is reached or has run
\* only if every emitter before it in the order Function, Container,
\* Gateway, Infrastructure has succeeded or been skipped.
C2_FixedOrder ==
    \A i \in 1..4 :
        (pc = EmitterAt[i] \/ status[EmitterAt[i]] # "pending") =>
            /\ <<>> \in dirs
            /\ \A j \in 1..4 :
                  j < i => status[EmitterAt[j]] \in {"ok", "skipped"}

\* A run that cleaned the output root, recreated it, skipped the Function
\* Emitter and ran the three others to the end.
C2_Witness ==
    /\ cleanBuildDir /\ pc = "done" /\ err = NoErr
    /\ [path |-> <<>>, by |-> "orchestrator"] \in written
    /\ status["functions"] = "skipped"
    /\ status["containers"] = "ok"
    /\ status["gateway"] = "ok"
    /\ status["terraform"] = "ok"

\* C3 (as claimed): in a build run no emitter writes output unless the
\* Validator ran on the parsed handlers after the parser and before the
\* generator, and its diagnostics (the per-handler rules and the route
\* uniqueness pass) were surfaced.
C3_ValidatedBeforeEmit ==
    (prog = "build" /\ \E w \in written : w.by # "orchestrator") =>
        /\ calls = <<"parser", "validator", "generator">>
        /\ surfaced = Validate(handlers) \o ValidateUniquePaths(handlers)

\* C4: after a successful Generate that started on an absent or empty
\* output root, the functions subtree exists only if there is a function
\* handler, the containers subtree only if there is a container handler,
\* the gateway and terraform subtrees only if there is a handler at all;
\* with no handler the output root exists and is empty.
C4_SubtreesOnlyWhenNeeded ==
    (pc = "done" /\ err = NoErr /\ IsClean(pre)) =>
        /\ <<"functions">> \in dirs =>
              \E i \in 1..Len(handlers) :
                  handlers[i].DeploymentType = "function"
        /\ <<"containers">> \in dirs =>
              \E i \in 1..Len(handlers) :
                  handlers[i].DeploymentType = "container"
        /\ <<"gateway">> \in dirs => Len(handlers) > 0
        /\ <<"terraform">> \in dirs => Len(handlers) > 0
        /\ Len(handlers) = 0 => dirs = {<<>>} /\ DOMAIN files = {}
        /\ <<>> \in dirs

\* A successful Generate on a clean root with container handlers only: the
\* containers, gateway and terraform subtrees exist, functions does not.
C4_Witness ==
    /\ pc = "done" /\ err = NoErr /\ IsClean(pre)
    /\ Len(handlers) > 0
    /\ \A i \in 1..Len(handlers) : handlers[i].DeploymentType = "container"
    /\ <<"functions">> \notin dirs
    /\ {<<"containers">>, <<"gateway">>, <<"terraform">>} \subseteq dirs

\* C5: everything an emitter creates lies inside its own subdirectory of
\* the output root, every file that differs from what was there when
\* Generate was called lies inside one of the four subdirectories, and the
\* handler list is the list the caller passed in.
C5_OwnSubtreeOnly ==
    /\ \A w \in written :
          /\ w.by = "functions" => IsUnder(w.path, <<"functions">>)
          /\ w.by = "containers" => IsUnder(w.path, <<"containers">>)
          /\ w.by = "gateway" => IsUnder(w.path, <<"gateway">>)
          /\ w.by = "terraform" => IsUnder(w.path, <<"terraform">>)
          /\ w.by = "orchestrator" => w.path = <<>>
    /\ \A p \in DOMAIN files :
          (p \notin DOMAIN pre.files \/ files[p] # pre.files[p]) =>
              /\ Len(p) > 0
              /\ p[1] \in {"functions", "containers", "gateway", "terraform"}
              /\ [path |-> p, by |-> p[1]] \in written
    /\ handlers = handlers0

\* A successful Generate in which all four emitters wrote files.
C5_Witness ==
    /\ pc = "done" /\ err = NoErr
    /\ \A e \in {"functions", "containers", "gateway", "terraform"} :
          \E w \in written : w.by = e /\ w.path \in DOMAIN files
    /\ handlers = handlers0 /\ Len(handlers) = 2

\* C6 (as claimed): a second successful Generate with the same handlers
\* and configuration leaves exactly the tree the first one produced from a
\* clean output root, whatever order the runtime iterated its maps in.
C6_SameOutputTwice ==
    (pc = "done" /\ err = NoErr /\ run = 2 /\ out1.valid /\ out1.fromClean)
        => dirs = out1.dirs /\ files = out1.files

\* The paths this Generate call wrote or created.
WrittenPaths == { w.path : w \in written }

\* What C7 says of a Generate call that has returned.
C7_Frame ==
    /\ cleanBuildDir =>
          \A p \in DOMAIN pre.files :
              p \in DOMAIN files => p \in WrittenPaths
    /\ (cleanBuildDir /\ pre.dirs = {}) =>
          err.stage # "clean build directory"
    /\ ~cleanBuildDir =>
          \A p \in DOMAIN pre.files :
              p \notin WrittenPaths =>
                  p \in DOMAIN files /\ files[p] = pre.files[p]

ClaimedGroupKey(h) ==
    IF h.ServiceName # <<>> THEN h.ServiceName ELSE h.PackageName

\* C8 (as claimed): two container handlers are in the same ServiceGroup
\* exactly when their group keys are equal.
C8_GroupedByKey ==
    pc = "grouped" =>
        \A i, j \in 1..Len(handlers) :
            (\E g \in 1..Len(groups) :
                /\ \E k \in 1..Len(groups[g].Handlers) :
                       groups[g].Handlers[k] = handlers[i]
                /\ \E k \in 1..Len(groups[g].Handlers) :
                       groups[g].Handlers[k] = handlers[j])
            <=> ClaimedGroupKey(handlers[i]) = ClaimedGroupKey(handlers[j])

\* The server entry points in the output tree, and the route registrations
\* in them (one element per entry point and position).
EntryPoints == { p \in DOMAIN files : files[p].kind = "servermain" }

Registrations ==
    UNION { { <<p, i>> : i \in 1..Len(files[p].data[3]) } : p \in EntryPoints }

\* C9 (as claimed): after a successful Generate on a clean root there is
\* one entry point per ServiceGroup, and every container handler is
\* registered in exactly one entry point: as many registrations carry its
\* route and symbol as the list has container handlers equal to it.
C9_EveryHandlerOnce ==
    (pc = "done" /\ err = NoErr /\ (cleanBuildDir \/ IsClean(pre))) =>
        /\ Cardinality(EntryPoints) = Len(groups)
        /\ \A i \in 1..Len(handlers) :
              handlers[i].DeploymentType = "container" =>
                  Cardinality({ r \in Registrations :
                      files[r[1]].data[3][r[2]] = Registration(handlers[i]) })
                  = Cardinality({ k \in 1..Len(handlers) :
                      handlers[k] = handlers[i] })

\* C10 (as claimed): in every server entry point a build run emitted, the
\* registered handler routes together with GET /health are pairwise
\* distinct on (method, path).
C10_DistinctRoutes ==
    prog = "build" =>
        \A p \in EntryPoints :
            LET regs == files[p].data[3]
                routes == [i \in 1..Len(regs) |->
                              <<regs[i].Method, regs[i].Path>>]
                          \o << <<"GET", "/health">> >>
            IN  \A i, j \in 1..Len(routes) : i # j => routes[i] # routes[j]

\* C11 (as claimed): after a successful Generate, the gateway backend
\* address of every container handler carries the name of the directory
\* the Container Emitter made for the handler's group, and the backend
\* address of every function handler ends in the name of the directory the
\* Function Emitter made for it.
C11_BackendMatchesDirectory ==
    (pc = "done" /\ err = NoErr) =>
        \A i \in 1..Len(handlers) :
            LET h == handlers[i]
            IN  /\ h.DeploymentType = "container" =>
                      \E g \in 1..Len(groups) :
                          LET dir == toKebabCase(groups[g].Name)
                          IN  /\ \E k \in 1..Len(groups[g].Handlers) :
                                     groups[g].Handlers[k] = h
                              /\ <<"containers", dir>> \in dirs
                              /\ getBackendURL(h)
                                   = "https://" \o dir \o "-us-central1.run.app"
                /\ h.DeploymentType = "function" =>
                      \E d \in dirs :
                          /\ Len(d) = 2 /\ d[1] = "functions"
                          /\ <<"functions", d[2], "main.go">> \in DOMAIN files
                          /\ files[<<"functions", d[2], "main.go">>].data # <<>>
                          /\ files[<<"functions", d[2], "main.go">>].data[1]
                               = Str(h.FunctionName)
                          /\ getBackendURL(h)
                               = "https://us-central1-PROJECT_ID"
                                 \o ".cloudfunctions.net/" \o d[2]

\* C12 (as claimed): after a successful Generate on a clean root, for a
\* list of pairwise different handlers, the functions subtree has as many
\* package directories as there are function handlers, and the entry point
\* in each handler's directory forwards to that handler's package and
\* symbol.
C12_OneDirectoryPerFunction ==
    (/\ pc = "done" /\ err = NoErr /\ (cleanBuildDir \/ IsClean(pre))
     /\ \A i, j \in 1..Len(handlers) : i # j => handlers[i] # handlers[j])
    =>
        /\ Cardinality({ d \in dirs : Len(d) = 2 /\ d[1] = "functions" })
             = Cardinality({ i \in 1..Len(handlers) :
                               handlers[i].DeploymentType = "function" })
        /\ \A i \in 1..Len(handlers) :
              handlers[i].DeploymentType = "function" =>
                  LET main == <<"functions",
                                toKebabCase(handlers[i].FunctionName),
                                "main.go">>
                  IN  /\ main \in DOMAIN files
                      /\ files[main].kind = "entrypoint"
                      /\ files[main].data[1] = Str(handlers[i].FunctionName)
                      /\ files[main].data[2] = Str(handlers[i].PackageName)

\* The declarations of the parsed file whose block has no deployment
\* target line, and the handlers returned for a declaration.
HasTarget(doc) ==
    \E k \in 1..Len(doc) :
        doc[k].box /\ doc[k].type \in {"function", "container"}

HandlersOf(name) ==
    { j \in 1..Len(handlers) : handlers[j].FunctionName = name }

\* C13 (as claimed): the parser returns no Handler for a declaration whose
\* annotation block has neither a function nor a container line.
C13_NoTargetNoHandler ==
    pc = "parsed" =>
        \A i \in 1..Len(source) :
            ~HasTarget(source[i].doc) => HandlersOf(source[i].name) = {}

\* The value grammar of the annotation table, key by key.
IsDigits(s) == s # <<>> /\ DigitsLen(s) = Len(s)

MatchesGrammar(line) ==
    LET v == line.value
        n == DigitsLen(v)
        suffix == Str(SubSeq(v, n + 1, Len(v)))
        parts == Split(v, "/", <<>>)
        words == Split(v, " ", <<>>)
    IN  IF line.type = "function" THEN v = <<>>
        ELSE IF line.type = "container"
        THEN v = <<>> \/ (HasPrefix(v, ServicePrefix)
                          /\ Len(v) > Len(ServicePrefix))
        ELSE IF line.type = "path"
        THEN /\ Len(words) = 2
             /\ Str(words[1]) \in ValidMethods
             /\ HasPrefix(words[2], <<"/">>)
        ELSE IF line.type = "auth"
        THEN Str(v) \in {"required", "optional", "none"}
        ELSE IF line.type = "cors"
        THEN HasPrefix(v, OriginsPrefix) /\ Len(v) > Len(OriginsPrefix)
        ELSE IF line.type = "ratelimit"
        THEN /\ Len(parts) = 2
             /\ IsDigits(parts[1])
             /\ Str(parts[2]) \in {"second", "minute", "hour", "day"}
        ELSE IF line.type = "timeout"
        THEN n > 0 /\ suffix \in {"s", "m", "h"}
        ELSE IF line.type = "memory"
        THEN n > 0 /\ suffix \in {"MB", "GB"}
        ELSE IF line.type = "concurrency" THEN IsDigits(v)
        ELSE FALSE

\* C14 (as claimed): every annotation line with an unknown key or a value
\* outside the key's grammar has a ParseError of its declaration, and
\* every declaration with a deployment target line yields a Handler,
\* whatever else the file contains.
C14_EveryBadLineReported ==
    pc = "parsed" =>
        \A i \in 1..Len(source) :
            /\ \A k \in 1..Len(source[i].doc) :
                  LET line == source[i].doc[k]
                  IN  (line.box /\ ~MatchesGrammar(line)) =>
                          \E e \in 1..Len(surfaced) :
                              /\ surfaced[e].Decl = source[i].name
                              /\ surfaced[e].Annotation = line
            /\ HasTarget(source[i].doc) => HandlersOf(source[i].name) # {}

\* The durations the annotation table gives the period and unit names.
DeclaredPeriod ==
    ("second" :> 1) @@ ("minute" :> 60) @@ ("hour" :> 3600)
    @@ ("day" :> 86400)

DeclaredUnit == ("s" :> 1) @@ ("m" :> 60) @@ ("h" :> 3600)

\* C15: for a declaration whose block was rendered from a complete, valid
\* declaration, the parser returns exactly one Handler, every field of it
\* equals the declared value, and no parse error is recorded for it.
C15_RoundTrip ==
    pc = "parsed" =>
        \A i \in 1..Len(source) :
            source[i].declared # <<>> =>
                LET d == source[i].declared[1]
                IN  /\ Cardinality(HandlersOf(source[i].name)) = 1
                    /\ \A j \in HandlersOf(source[i].name) :
                          LET h == handlers[j]
                          IN  /\ h.DeploymentType = d.target
                              /\ h.Route.Method = Str(d.method)
                              /\ h.Route.Path = d.path
                              /\ h.Auth = Str(d.auth)
                              /\ h.CORS.set
                              /\ h.CORS.AllowedOrigins = d.origins
                              /\ h.RateLimit.set
                              /\ h.RateLimit.Count = d.count
                              /\ h.RateLimit.Period
                                   = DeclaredPeriod[Str(d.period)]
                              /\ h.Timeout
                                   = d.timeout.num
                                     * DeclaredUnit[Str(d.timeout.unit)]
                              /\ h.Memory = Digits(d.memory.num)
                                            \o d.memory.unit
                              /\ h.Concurrency = d.concurrency
                    /\ \A e \in 1..Len(surfaced) :
                          surfaced[e].Decl # source[i].name

\* A complete block parsed: container, POST, two origins, 100 per day,
\* five minutes, 1GB, concurrency 80.
C15_Witness ==
    /\ pc = "parsed"
    /\ source[1].declared # <<>>
    /\ Len(handlers) >= 1
    /\ handlers[1].DeploymentType = "container"
    /\ handlers[1].Route.Method = "POST"
    /\ handlers[1].CORS.AllowedOrigins = << <<"a">>, <<"b">> >>
    /\ handlers[1].RateLimit = [set |-> TRUE, Count |-> 100, Period |-> 86400]
    /\ handlers[1].Timeout = 300
    /\ handlers[1].Memory = <<"1", "G", "B">>
    /\ handlers[1].Concurrency = 80

\* Two handlers declare the same route.
SameRoute(a, b) ==
    a.Route.Method = b.Route.Method /\ a.Route.Path = b.Route.Path

\* C16: the uniqueness pass returns one diagnostic per handler whose
\* (method, path) is that of an earlier handler, in list order, attributed
\* to that later handler and naming the first handler with the route; a
\* handler whose route no earlier handler has gets none.
C16_DuplicateRoutes ==
    pc = "unique" =>
        LET IsDup(i) ==
                \E j \in 1..(i - 1) : SameRoute(handlers[j], handlers[i])
            First(i) ==
                CHOOSE j \in 1..i :
                    /\ SameRoute(handlers[j], handlers[i])
                    /\ \A k \in 1..(j - 1) :
                          ~SameRoute(handlers[k], handlers[i])
            dups == SelectSeq([i \in 1..Len(handlers) |-> i], IsDup)
        IN  /\ Len(surfaced) = Len(dups)
            /\ \A k \in 1..Len(dups) :
                  LET h == handlers[dups[k]]
                  IN  /\ surfaced[k].Handler = Str(h.FunctionName)
                      /\ surfaced[k].Annotation = "@wylla:path"
                      /\ surfaced[k].Reason
                           = "Duplicate route: " \o h.Route.Method \o " "
                             \o Str(h.Route.Path)
                             \o " already defined in handler "
                             \o Str(handlers[First(dups[k])].FunctionName)

\* Three handlers on one route, the first named AB and the others C: two
\* diagnostics, both naming AB.
C16_Witness ==
    /\ pc = "unique"
    /\ Len(handlers) = 3
    /\ SameRoute(handlers[1], handlers[2])
    /\ SameRoute(handlers[1], handlers[3])
    /\ handlers[1].FunctionName = <<"A", "B">>
    /\ handlers[2].FunctionName = <<"C">>
    /\ handlers[3].FunctionName = <<"C">>
    /\ Len(surfaced) = 2

\* The diagnostics of each validation rule applied to h on its own.
RuleDiagnostics(h) ==
    << IF h.DeploymentType = ""
       THEN <<AnnotationError(h, "@wylla:function or @wylla:container",
                              "Missing deployment type annotation")>>
       ELSE <<>>,
       IF h.Route.Method = "" \/ h.Route.Path = <<>>
       THEN <<AnnotationError(h, "@wylla:path", "Missing path annotation")>>
       ELSE <<>>,
       IF h.Route.Path # <<>> THEN validatePath(h) ELSE <<>>,
       IF h.DeploymentType = "function" THEN validateFunctionConfig(h)
       ELSE <<>>,
       IF h.DeploymentType = "container" THEN validateContainerConfig(h)
       ELSE <<>>,
       IF h.RateLimit.set THEN validateRateLimit(h) ELSE <<>>,
       IF h.CORS.set THEN validateCORS(h) ELSE <<>>,
       IF h.Timeout > 0 THEN validateTimeout(h) ELSE <<>> >>

\* C17: the result of Validate is the in-order concatenation of what each
\* handler yields when validated alone, every diagnostic of every rule of
\* every handler is in it, and the handler list is as it was.
C17_CollectsInFull ==
    pc = "validated" =>
        /\ surfaced
             = Flatten([i \in 1..Len(handlers) |-> Validate(<<handlers[i]>>)])
        /\ \A i \in 1..Len(handlers) :
              /\ \A r \in 1..8 :
                    \A k \in 1..Len(RuleDiagnostics(handlers[i])[r]) :
                        \E e \in 1..Len(surfaced) :
                            surfaced[e] = RuleDiagnostics(handlers[i])[r][k]
              /\ Len(Validate(<<handlers[i]>>))
                   = Len(Flatten(RuleDiagnostics(handlers[i])))
        /\ handlers = handlers0

\* Two handlers that each break several rules: all eight diagnostics are
\* returned.
C17_Witness ==
    /\ pc = "validated"
    /\ Len(handlers) = 2
    /\ handlers[1].DeploymentType = "" /\ handlers[1].Timeout = 4
    /\ handlers[2].Memory = <<"9", "9", "M", "B">>
    /\ handlers[2].Timeout = 600
    /\ Len(surfaced) = 8

\* The diagnostics Validate yields for handler i alone that carry the given
\* annotation and reason.
DiagnosticsOf(i, annotation, reasons) ==
    { k \in 1..Len(Validate(<<handlers[i]>>)) :
        /\ Validate(<<handlers[i]>>)[k].Annotation = annotation
        /\ Validate(<<handlers[i]>>)[k].Reason \in reasons }

ConcurrencyReasons ==
    { "Concurrency is not applicable to Cloud Functions",
      "Concurrency must be between 1 and 1000" }

\* C18 (as claimed): Validate reports a concurrency diagnostic for a
\* function handler with concurrency set and for a container handler whose
\* set concurrency is outside 1..1000, and none for a container handler
\* with concurrency within 1..1000.
C18_ConcurrencyRange ==
    pc = "validated" =>
        \A i \in 1..Len(handlers) :
            LET h == handlers[i]
                reported ==
                    DiagnosticsOf(i, "@wylla:concurrency", ConcurrencyReasons)
                    # {}
            IN  /\ (h.DeploymentType = "function" /\ h.Concurrency # 0)
                      => reported
                /\ (h.DeploymentType = "container" /\ h.Concurrency # 0
                    /\ h.Concurrency \notin 1..1000) => reported
                /\ (h.DeploymentType = "container"
                    /\ h.Concurrency \in 1..1000) => ~reported

\* The braces of a path are well formed: each segment between slashes
\* either has no brace or is {name} with a non-empty, brace-free name.
BracesWellFormed(path) ==
    LET parts == Split(path, "/", <<>>)
    IN  \A i \in 1..Len(parts) :
            LET part == parts[i]
                braces == { k \in 1..Len(part) : part[k] \in {"{", "}"} }
            IN  braces = {}
                \/ (/\ Len(part) >= 3
                    /\ braces = {1, Len(part)}
                    /\ part[1] = "{" /\ part[Len(part)] = "}")

PathReasons ==
    { "Path must start with '/'", "Path should not end with '/'",
      "Invalid path parameter syntax" }

\* C19 (as claimed): for a handler with a route, Validate reports a path
\* diagnostic exactly when the path does not start with a slash, or ends
\* with one without being the root path, or has a brace outside a {name}
\* segment.
C19_PathRules ==
    pc = "validated" =>
        \A i \in 1..Len(handlers) :
            LET path == handlers[i].Route.Path
                good == /\ Head(path) = "/"
                        /\ (path[Len(path)] = "/" => path = <<"/">>)
                        /\ BracesWellFormed(path)
            IN  path # <<>> =>
                    (DiagnosticsOf(i, "@wylla:path", PathReasons) # {}
                     <=> ~good)

CeilingReasons ==
    { "Cloud Function timeout cannot exceed 540s",
      "Cloud Run timeout cannot exceed 3600s" }

\* C20 (as claimed): Validate reports a ceiling diagnostic exactly when the
\* timeout is above 540 seconds on a function handler or above 3600 seconds
\* on a container handler, and the short-timeout advisory exactly when a
\* timeout is set and below 5 seconds, whatever the deployment target.
C20_TimeoutRules ==
    pc = "validated" =>
        \A i \in 1..Len(handlers) :
            LET h == handlers[i]
            IN  /\ DiagnosticsOf(i, "@wylla:timeout", CeilingReasons) # {}
                     <=> \/ h.DeploymentType = "function" /\ h.Timeout > 540
                         \/ h.DeploymentType = "container" /\ h.Timeout > 3600
                /\ DiagnosticsOf(i, "@wylla:timeout",
                                 {"Timeout is very short"}) # {}
                     <=> (h.Timeout # 0 /\ h.Timeout < 5)

\* The data the openapi.yaml template was executed on.
OpenAPI == files[<<"gateway", "openapi.yaml">>].data

\* The operation the API specification holds for the route of handlers[i],
\* or none when the document has no such operation.
OperationsAt(i) ==
    { OpenAPI[1][k].Operations[m] :
        <<k, m>> \in { km \in (1..Len(OpenAPI[1])) \X {"get", "post"} :
                         /\ OpenAPI[1][km[1]].Path
                              = Str(handlers[i].Route.Path)
                         /\ km[2] \in DOMAIN OpenAPI[1][km[1]].Operations
                         /\ km[2] = LowerMethod[handlers[i].Route.Method] } }

\* The handler an operation stands for: the last one declared on a route.
LastOnRoute(i) ==
    \A j \in (i + 1)..Len(handlers) : handlers[j].Route # handlers[i].Route

MemoryNumber(memory) == SubSeq(memory, 1, DigitsLen(memory))

\* The function.yaml written for handlers[i].
ManifestOf(i) ==
    files[<<"functions", toKebabCase(handlers[i].FunctionName),
            "function.yaml">>].data

\* No other handler of the list is written to the directory of handlers[i].
OwnDirectory(i) ==
    \A j \in 1..Len(handlers) :
        (j # i /\ handlers[j].DeploymentType = DeploymentFunction) =>
            toKebabCase(handlers[j].FunctionName)
                # toKebabCase(handlers[i].FunctionName)

\* C22: for every function handler the platform manifest records the
\* memory as a number followed by the unit suffix Mi (256Mi when the
\* memory is unset, otherwise the numeric part of the handler's memory, for
\* every value the validator accepts) and the timeout in seconds, 60 when
\* unset and the handler's timeout otherwise.
C22_ManifestMemoryAndTimeout ==
    (pc = "functions" /\ status["functions"] = "ok") =>
        \A i \in 1..Len(handlers) :
            (/\ handlers[i].DeploymentType = DeploymentFunction
             /\ OwnDirectory(i)
             /\ handlers[i].Memory \in validMemory \cup {<<>>}) =>
                /\ ManifestOf(i)[3]
                     = (IF handlers[i].Memory = <<>>
                        THEN <<"2", "5", "6">>
                        ELSE MemoryNumber(handlers[i].Memory))
                       \o <<"M", "i">>
                /\ ManifestOf(i)[4]
                     = (IF handlers[i].Timeout = 0 THEN 60
                        ELSE handlers[i].Timeout)

\* The string the claim describes for the first n letters of a name: a
\* dash before every uppercase letter but the first letter, all lowercased.
RECURSIVE DashedLower(_, _)
DashedLower(name, n) ==
    IF n = 0 THEN ""
    ELSE DashedLower(name, n - 1)
         \o (IF n > 1 /\ name[n] \in {"A", "B", "C", "H", "P", "T", "U"}
             THEN "-" ELSE "")
         \o ToLowerRune(name[n])

\* C23: the name-casing transform is a function of the symbol name alone:
\* every call on a name gives the name with a dash before every uppercase
\* letter that is not the first character, lowercased; CreateAccount gives
\* create-account and HTTPHandler gives h-t-t-p-handler.
C23_KebabDeterministic ==
    \A k \in 1..Len(surfaced) :
        /\ surfaced[k] = surfaced[1]
        /\ surfaced[k] = DashedLower(source, Len(source))
        /\ source = CreateAccount => surfaced[k] = "create-account"
        /\ source = HTTPHandler => surfaced[k] = "h-t-t-p-handler"

\* HTTPHandler was transformed twice.
C23_Witness ==
    /\ source = HTTPHandler
    /\ Len(surfaced) = 2
    /\ surfaced[2] = "h-t-t-p-handler"

\* The root main.tf, once this Generate call has written it in full.
RootMain == <<"terraform", "main.tf">>

RootMainWritten ==
    /\ RootMain \in WrittenPaths
    /\ RootMain \in DOMAIN files
    /\ files[RootMain].kind = "root/main"

\* The three configuration files of a module.
ModuleConfiguration(module) ==
    { <<"terraform", "modules", module, f>> :
        f \in {"main.tf", "variables.tf", "outputs.tf"} }

\* C24: the root infrastructure configuration references the
\* function-hosting module exactly when there is a function handler and the
\* container-hosting module exactly when there is a container handler, it
\* always references the gateway and networking modules, and every module
\* it references has its configuration files generated in the same run.
C24_RootReferencesGeneratedModules ==
    RootMainWritten =>
        LET referenced == rootMainTemplate(files[RootMain].data[1])
        IN  /\ ("cloud-functions" \in referenced)
                  <=> (\E i \in 1..Len(handlers) :
                          handlers[i].DeploymentType = DeploymentFunction)
            /\ ("cloud-run" \in referenced)
                  <=> (\E i \in 1..Len(handlers) :
                          handlers[i].DeploymentType = DeploymentContainer)
            /\ {"api-gateway", "networking"} \subseteq referenced
            /\ \A module \in referenced :
                  \A path \in ModuleConfiguration(module) :
                      /\ path \in WrittenPaths
                      /\ path \in DOMAIN files
                      /\ files[path].kind \notin {"truncated", "stale"}

\* A root main.tf written for container handlers only, over an output
\* tree that held stale files: cloud-run is referenced, cloud-functions
\* is not.
C24_Witness ==
    /\ RootMainWritten
    /\ ~IsClean(pre)
    /\ files[RootMain].data[1].HasContainers
    /\ ~files[RootMain].data[1].HasFunctions
    /\ pc = "done" /\ err = NoErr

\* The variable files of the three environments.
VariableFiles ==
    { <<"terraform", "environments", env \o ".tfvars">> :
        env \in {"dev", "staging", "production"} }

\* What C25 says of a GenerateTerraform call that has returned: the files
\* it wrote below terraform/environments are the three variable files,
\* each holding its own environment name and nothing of the Generator's
\* settings, and they are the files the first call left.
C25_Frame ==
    /\ { path \in WrittenPaths \cap DOMAIN files :
            IsUnder(path, <<"terraform", "environments">>) } = VariableFiles
    /\ \A env \in {"dev", "staging", "production"} :
          LET path == <<"terraform", "environments", env \o ".tfvars">>
          IN  /\ path \in DOMAIN files
              /\ files[path] = Content("tfvars", <<env>>)
              /\ out1.valid => files[path] = out1.files[path]

ExcludedFile(lang, f) ==
    \/ f.dir # <<>> /\ Head(f.dir) = "."
    \/ f.dir = (IF lang = "go" THEN <<"v", "e", "n", "d", "o", "r">>
                ELSE <<"n", "o", "d", "e", "_", "m", "o", "d", "u", "l", "e", "s">>)
    \/ \E suffix \in {<<"_", "t", "e", "s", "t", ".", "g", "o">>, <<".", "t", "e", "s", "t", ".", "t", "s">>, <<".", "t", "e", "s", "t", ".", "j", "s">>, <<".", "d", ".", "t", "s">>} : HasSuffix(f.name, suffix)

\* The source files of the language a parser reads.
SourceFile(lang, f) ==
    \E suffix \in (IF lang = "go" THEN {<<".", "g", "o">>}
                    ELSE {<<".", "t", "s">>, <<".", "j", "s">>}) :
        HasSuffix(f.name, suffix)

\* The paths of the Handlers and ParseErrors a scan returned.
ReturnedPaths ==
    { handlers[i].FilePath : i \in 1..Len(handlers) }
    \cup { surfaced[i].FilePath : i \in 1..Len(surfaced) }

\* C26: a directory scan, by the Go-source parser and by the
\* TypeScript-source parser alike, never returns a Handler or a ParseError
\* that comes from a file inside a hidden directory or a dependency
\* directory, or from a test or type-definition file, and it scans every
\* other source file under the directory.
C26_ScanSkipsExcluded ==
    pc \in {"go", "ts"} =>
        \A n \in source.present :
            LET f == ScanFiles[n]
                path == WalkPath(source.root, f)
            IN  /\ ExcludedFile(pc, f) => path \notin ReturnedPaths
                /\ (SourceFile(pc, f) /\ ~ExcludedFile(pc, f)) =>
                       \E i \in 1..Len(handlers) :
                           handlers[i].FilePath = path

\* The requests for which the limiter's Allow has returned.
Limited == { i \in 1..Len(requests) : requests[i].turn > 0 }

\* The requests Allow counted in the same window of the same key as i.
SameWindow(i) ==
    { j \in Limited : /\ requests[j].key = requests[i].key
                      /\ requests[j].resetTime = requests[i].resetTime }

\* The requests of i's key that Allow handled before i.
EarlierOfKey(i) ==
    { j \in Limited : /\ requests[j].key = requests[i].key
                      /\ requests[j].turn < requests[i].turn }

\* C27: under every interleaving of concurrent requests, no bucket counts
\* more than the limit; in each window of each key the first `limit`
\* requests are allowed and every further one is rejected with status 429
\* and a Retry-After header; a request that comes after the reset time of
\* its key's window starts a new window and is allowed, and any other
\* request is counted in the window that is open.
C27_LimitPerWindow ==
    LET limit == Registered.RateLimit.Count
        window == Registered.RateLimit.Period
    IN  /\ \A k \in RemoteAddrs : buckets[k].count <= limit
        /\ \A i \in Limited :
             LET r == requests[i]
                 before == { j \in SameWindow(i) : requests[j].turn < r.turn }
             IN  /\ Cardinality({ j \in SameWindow(i) : requests[j].allowed })
                       <= limit
                 /\ r.allowed <=> Cardinality(before) < limit
                 /\ IF EarlierOfKey(i) = {}
                    THEN r.resetTime = r.at + window
                    ELSE LET p == CHOOSE j \in EarlierOfKey(i) :
                                    \A q \in EarlierOfKey(i) :
                                        requests[q].turn <= requests[j].turn
                         IN  IF r.at > requests[p].resetTime
                             THEN r.resetTime = r.at + window /\ r.allowed
                             ELSE r.resetTime = requests[p].resetTime
                 /\ (r.pc = "done" /\ ~r.allowed) =>
                       /\ r.writes = <<[by |-> "limit",
                                        status |-> StatusTooManyRequests]>>
                       /\ Len(r.retryAfter) = 1
                 /\ (r.pc = "done" /\ r.allowed) =>
                       r.writes = <<[by |-> "handler", status |-> StatusOK]>>

\* One client whose first request is allowed, whose second request in the
\* same window is rejected with 429 while another request waits for the
\* lock, and whose request after the reset time is allowed again.
C27_Witness ==
    /\ Registered.RateLimit.set
    /\ \E i, j, k \in Limited :
          /\ requests[i].key = requests[j].key
          /\ requests[j].key = requests[k].key
          /\ requests[i].allowed
          /\ requests[j].resetTime = requests[i].resetTime
          /\ ~requests[j].allowed /\ requests[j].pc = "done"
          /\ requests[k].at > requests[i].resetTime
          /\ requests[k].allowed /\ requests[k].pc = "done"

\* A header that starts with `Bearer `.
StartsWithBearer(header) ==
    /\ Len(header) >= 7
    /\ \A k \in 1..7 : header[k] = BearerToken[k]

\* The stages that ran for request i.
Ran(i) == { requests[i].trace[k] : k \in 1..Len(requests[i].trace) }

\* A request to a handler whose auth mode is required, without a header that
\* starts with `Bearer `, is answered with 401 by the authentication stage
\* and neither the rate limiter nor the handler runs for it.
C28_RequiredRejects ==
    \A i \in 1..Len(requests) :
        (Registered.Auth = AuthRequired
         /\ ~StartsWithBearer(requests[i].header)) =>
            /\ requests[i].writes = <<[by |-> "auth",
                                       status |-> StatusUnauthorized]>>
            /\ requests[i].pc = "done"
            /\ requests[i].turn = 0
            /\ Ran(i) \cap {"limit", "handler"} = {}

Writers(i) ==
    { requests[i].writes[k].by : k \in 1..Len(requests[i].writes) }

\* C30: for every request that passes through the timeout middleware one
\* party at most has written to the response, and exactly one response has
\* been written once the middleware and the handler have both returned: the
\* handler's when it finished before the timeout, the 504 otherwise.
C30_ExactlyOneWriter ==
    \A i \in 1..Len(requests) :
        "timeout" \in Ran(i) =>
            /\ Cardinality(Writers(i)) <= 1
            /\ (requests[i].pc = "done" /\ requests[i].hpc = "returned") =>
                  Len(requests[i].writes) = 1
            /\ (requests[i].done /\ ~requests[i].expired) =>
                  Writers(i) = {"handler"}

\* The main.tf of a hosting module, once this Generate call has written it.
HostingMain(module) == <<"terraform", "modules", module, "main.tf">>

HostingMainWritten(module) ==
    /\ HostingMain(module) \in WrittenPaths
    /\ HostingMain(module) \in DOMAIN files
    /\ files[HostingMain(module)].kind = module \o "/main"

\* The identities a rendered main.tf declares are all different and every
\* identity a resource refers to is among them.
IdentitiesDeclared(rendered) ==
    /\ \A i, j \in 1..Len(rendered.declared) :
          rendered.declared[i] = rendered.declared[j] => i = j
    /\ \A i \in 1..Len(rendered.referred) :
          \E j \in 1..Len(rendered.declared) :
              rendered.declared[j] = rendered.referred[i]

\* C29: in the function-hosting and the container-hosting module every
\* service identity a deployable resource refers to is declared in that
\* module, and no identity is declared twice, whatever the handler list,
\* package names that are empty included.
C29_IdentitiesDeclared ==
    /\ HostingMainWritten("cloud-functions") =>
          IdentitiesDeclared(cloudFunctionsMainTemplate(
              files[HostingMain("cloud-functions")].data))
    /\ HostingMainWritten("cloud-run") =>
          IdentitiesDeclared(cloudRunMainTemplate(
              files[HostingMain("cloud-run")].data))

====
